---- MODULE Spec2Model ----
(***************************************************************************)
(* Production-tracking front end: the operation-metrics computation of the *)
(* OperationData component (pause-overlap calculator and metrics           *)
(* aggregator), its tasks fetch effect, the TaskDetail page, the           *)
(* AdminOrders drill-down, the order forms (CreateNewOrder and             *)
(* EditOrderFieldModal) and the AdminMachines / AdminUsers lists.          *)
(*                                                                         *)
(* Conventions of the model                                                *)
(*  - An instant (a JS Date) is an integer number of minutes; minute 0 is  *)
(*    00:00 UTC of day 0 (2024-01-01T00:00:00Z in the examples).  Dates    *)
(*    are whole minutes, so every "/ 60000" of the source is exact.        *)
(*  - A JS number that is the result of a division is an exact rational    *)
(*    <<n, d>> in lowest terms, d > 0.  The three IEEE values a division   *)
(*    by zero produces are <<1,0>> (+Infinity), <<-1,0>> (-Infinity) and   *)
(*    <<0,0>> (NaN).  Rounding of doubles is not modelled.                 *)
(*  - A nullable value is a record with a boolean field "some".            *)
(*  - The host time zone is an input of the Date local-time API (setHours, *)
(*    new Date(y, m, d, h, mi)): tz is "fixed" (local time is UTC),        *)
(*    "east" (local time is UTC+2), "spring" (UTC until the clocks go      *)
(*    01:00 -> 02:00 on local day 1) or "fall" (UTC until the clocks go    *)
(*    02:00 -> 01:00 on local day 1).                                      *)
(***************************************************************************)
EXTENDS Integers, Sequences, FiniteSets, TLC

VARIABLES
  tz,          \* host time zone rule (input of the Date local-time API)
  pauseCall,   \* one call of sumPauseOverlapBetween: its arguments and result
  operation,   \* OperationData prop "operation"
  order,       \* OperationData prop "order"
  tasks,       \* OperationData state "tasks"
  rendered,    \* whether OperationData has rendered with these props and state
  memo,        \* the useMemo "metrics" of the last render: its value and the
               \* per-task locals of its aggregation loop
  loading,     \* OperationData state "loading"
  error,       \* OperationData state "error" ("" is null)
  fetches,     \* the runs of OperationData's tasks fetch effect, oldest first:
               \* the operation fetched for, the closure's "cancelled" flag and
               \* what became of the response
  detail,      \* TaskDetail: its state (useState values and timerRef)
  serverTask,  \* the task as the REST API holds it
  request,     \* the request of TaskDetail that is in flight, if any
  intervals,   \* the ids of the live setInterval timers of the page
  timersCreated, \* how many intervals setInterval has created (the last id)
  now,         \* the clock, in seconds
  navigated,   \* navigate(-1) has been called
  edits,       \* how many edits the user has made
  adminOrders, \* AdminOrders: its state, the dependencies its effects last
               \* ran with, and the operations fetches still in flight
  orderForms,  \* the order forms (CreateNewOrder in Home, EditOrderFieldModal
               \* in OrderDetail), the requests they sent and the order lists
  adminList    \* AdminMachines / AdminUsers: its state, the rows the API
               \* holds and the requests in flight

\* the state of OperationData's fetch effect
fetchVars == <<loading, error, fetches>>

\* TaskDetail and its environment
detailVars ==
  <<detail, serverTask, request, intervals, timersCreated, now, navigated, edits>>

\* the admin pages and the order forms
pageVars == <<adminOrders, orderForms, adminList>>

vars ==
  <<tz, pauseCall, operation, order, tasks, rendered, memo, fetchVars, detailVars,
    pageVars>>

\* the value of the useMemo "metrics"
metrics == memo.metrics

\* the per-task locals of the aggregation loop
perTask == memo.rows

----------------------------------------------------------------------------
(* Bounds *)

MaxDay == 2      \* instants lie on local days 0..MaxDay
MaxTasks == 2    \* length of a task list
MaxFetches == 3  \* fetches an effect has started (OperationData, AdminOrders)
MaxNow == 2      \* seconds the clock of TaskDetail runs
MaxEdits == 1    \* edits of the user on the TaskDetail page
MaxOrders == 1   \* orders created from Home
MaxListFetches == 2  \* list requests AdminMachines / AdminUsers has sent
MaxSaves == 1    \* PATCH requests AdminMachines / AdminUsers has sent

----------------------------------------------------------------------------
(* JS numbers *)

Abs(x) == IF x < 0 THEN 0 - x ELSE x

Sign(x) == IF x < 0 THEN 0 - 1 ELSE IF x > 0 THEN 1 ELSE 0

RECURSIVE Gcd(_, _)
Gcd(a, b) == IF b = 0 THEN a ELSE Gcd(b, a % b)

PosInf == <<1, 0>>
NegInf == <<0 - 1, 0>>
NaN == <<0, 0>>
Zero == <<0, 1>>

IsNaN(a) == a = NaN
IsFinite(a) == a[2] > 0

\* the rational n/d, d > 0, in lowest terms
Norm(n, d) ==
  LET g == Gcd(Abs(n), d)
  IN  <<Sign(n) * (Abs(n) \div g), d \div g>>

FromInt(k) == <<k, 1>>

\* a + b
RAdd(a, b) ==
  IF IsNaN(a) \/ IsNaN(b) THEN NaN
  ELSE IF ~IsFinite(a) THEN (IF ~IsFinite(b) /\ a # b THEN NaN ELSE a)
  ELSE IF ~IsFinite(b) THEN b
  ELSE Norm(a[1] * b[2] + b[1] * a[2], a[2] * b[2])

RNeg(a) == <<0 - a[1], a[2]>>

\* a - b
RSub(a, b) == RAdd(a, RNeg(b))

\* a / k for an integer k
RDivInt(a, k) ==
  IF IsNaN(a) THEN NaN
  ELSE IF k = 0 THEN <<Sign(a[1]), 0>>
  ELSE IF ~IsFinite(a) THEN <<Sign(a[1]) * Sign(k), 0>>
  ELSE Norm(a[1] * Sign(k), a[2] * Abs(k))

\* Math.max(0, a)
RMax0(a) ==
  IF IsNaN(a) THEN NaN
  ELSE IF a[1] < 0 THEN Zero
  ELSE a

\* Math.max(1, k)
Max1(k) == IF k > 1 THEN k ELSE 1

----------------------------------------------------------------------------
(* Nullable values *)

Absent == [some |-> FALSE, v |-> 0]
Num(k) == [some |-> TRUE, v |-> k]

\* x ?? 1
OrOne(x) == IF x.some THEN x.v ELSE 1

NoDate == [some |-> FALSE, t |-> 0]
Date(t) == [some |-> TRUE, t |-> t]

NoNumber == [some |-> FALSE, v |-> Zero]
Number(r) == [some |-> TRUE, v |-> r]

----------------------------------------------------------------------------
(* Date local-time API *)

MinutesPerDay == 1440

Timezones == {"fixed", "east", "spring", "fall"}

\* minutes the local clock of zone "east" is ahead of UTC
EastOffset == 2 * 60

\* local wall-clock minute shown at instant t
LocalTime(z, t) ==
  CASE z = "spring" -> IF t < MinutesPerDay + 60 THEN t ELSE t + 60
    [] z = "fall" -> IF t < MinutesPerDay + 120 THEN t ELSE t - 60
    [] z = "east" -> t + EastOffset
    [] OTHER -> t

\* new Date(y, m, d, h, mi, 0, 0): the instant of local wall-clock minute l
FromLocal(z, l) ==
  CASE z = "spring" -> IF l < MinutesPerDay + 120 THEN l ELSE l - 60
    [] z = "fall" -> IF l < MinutesPerDay + 120 THEN l ELSE l + 60
    [] z = "east" -> l - EastOffset
    [] OTHER -> l

\* getFullYear/getMonth/getDate: the local calendar day of instant t
LocalDay(z, t) == LocalTime(z, t) \div MinutesPerDay

\* setHours(0, 0, 0, 0)
StartOfDay(z, t) == FromLocal(z, LocalDay(z, t) * MinutesPerDay)

----------------------------------------------------------------------------
(* Pause-overlap calculator *)

PAUSE_DEFS ==
  << [startH |-> 10, startM |-> 0, endH |-> 10, endM |-> 10],
     [startH |-> 12, startM |-> 30, endH |-> 13, endM |-> 20],
     [startH |-> 15, startM |-> 30, endH |-> 15, endM |-> 40] >>

minutesBetween(a, b) == IF b - a > 0 THEN b - a ELSE 0

\* variant: the overlap is not clamped at 0
overlapMinutes_Unclamped(aStart, aEnd, bStart, bEnd) ==
  LET s == IF aStart > bStart THEN aStart ELSE bStart
      e == IF aEnd < bEnd THEN aEnd ELSE bEnd
  IN  e - s

overlapMinutes(aStart, aEnd, bStart, bEnd) ==
  LET s == IF aStart > bStart THEN aStart ELSE bStart
      e == IF aEnd < bEnd THEN aEnd ELSE bEnd
  IN  IF e - s > 0 THEN e - s ELSE 0

\* the inner for loop: the three windows of the local day that starts at cur
RECURSIVE PauseDayLoop(_, _, _, _, _)
PauseDayLoop(z, start, end, cur, i) ==
  IF i > Len(PAUSE_DEFS) THEN 0
  ELSE LET pd == PAUSE_DEFS[i]
           day == LocalDay(z, cur)
           pStart == FromLocal(z, day * MinutesPerDay + pd.startH * 60 + pd.startM)
           pEnd == FromLocal(z, day * MinutesPerDay + pd.endH * 60 + pd.endM)
       IN  overlapMinutes(start, end, pStart, pEnd)
             + PauseDayLoop(z, start, end, cur, i + 1)

\* cur.setDate(cur.getDate() + 1) on a Date that is a local midnight
NextDay(z, cur) == FromLocal(z, (LocalDay(z, cur) + 1) * MinutesPerDay)

\* variant: the scan stops before the day of end ("cur < endDay")
RECURSIVE PauseWhileLoop_EndDayExcluded(_, _, _, _, _)
PauseWhileLoop_EndDayExcluded(z, start, end, cur, endDay) ==
  IF cur < endDay
  THEN PauseDayLoop(z, start, end, cur, 1)
         + PauseWhileLoop_EndDayExcluded(z, start, end, NextDay(z, cur), endDay)
  ELSE 0

\* the while loop over calendar days
RECURSIVE PauseWhileLoop(_, _, _, _, _)
PauseWhileLoop(z, start, end, cur, endDay) ==
  IF cur <= endDay
  THEN PauseDayLoop(z, start, end, cur, 1)
         + PauseWhileLoop(z, start, end, NextDay(z, cur), endDay)
  ELSE 0

\* variant: the windows are not intersected with [start, end] but with the
\* whole days the interval touches
sumPauseOverlapBetween_Unclipped(z, start, end) ==
  IF end <= start THEN 0
  ELSE PauseWhileLoop(z, StartOfDay(z, start), NextDay(z, StartOfDay(z, end)),
                      StartOfDay(z, start), StartOfDay(z, end))

sumPauseOverlapBetween(z, start, end) ==
  IF end <= start THEN 0
  ELSE PauseWhileLoop(z, start, end, StartOfDay(z, start), StartOfDay(z, end))

----------------------------------------------------------------------------
(* Records of the REST API, as OperationData reads them *)

\* an ISO-8601 string of the JSON, by what new Date(s) makes of it
\* null, undefined or "": the strings for which "!s" holds
NullString == [kind |-> "null", t |-> 0]
InvalidString == [kind |-> "invalid", t |-> 0]
Iso(t) == [kind |-> "iso", t |-> t]

Task(start_at, end_at, num_benches, num_machines, process_type) ==
  [start_at |-> start_at, end_at |-> end_at, num_benches |-> num_benches,
   num_machines |-> num_machines, process_type |-> process_type]

\* a machine record; "" stands for a field the JSON does not carry
NoMachine == [some |-> FALSE, machine_type |-> "", type |-> ""]
Machine(machine_type) == [some |-> TRUE, machine_type |-> machine_type, type |-> ""]

NoOperation ==
  [some |-> FALSE, id |-> 0, machine_type |-> "", machine |-> NoMachine,
   type |-> "", operation_type |-> ""]
Operation(id, flat_machine_type, machine) ==
  [some |-> TRUE, id |-> id, machine_type |-> flat_machine_type,
   machine |-> machine, type |-> "", operation_type |-> ""]

NoOrder == [some |-> FALSE, num_pieces |-> Absent]
Order(num_pieces) == [some |-> TRUE, num_pieces |-> num_pieces]

NoTasks == [some |-> FALSE, list |-> <<>>]
TaskList(list) == [some |-> TRUE, list |-> list]

----------------------------------------------------------------------------
(* Helpers of OperationData *)

\* variant: an unparseable string is not rejected
parseISO_NoNaNCheck(s) ==
  IF s.kind = "null" THEN NoDate
  ELSE Date(s.t)

parseISO(s) ==
  IF s.kind = "null" THEN NoDate
  ELSE IF s.kind = "invalid" THEN NoDate
  ELSE Date(s.t)

\* String(v).trim().toUpperCase() on the machine-type strings of the model
TrimUpper(v) ==
  CASE v \in {"CONVENTIONAL", "conventional", "Conventional", " conventional "} -> "CONVENTIONAL"
    [] v \in {"CNC", "cnc", " cnc "} -> "CNC"
    [] v \in {"", " "} -> ""
    [] OTHER -> v

RECURSIVE FirstMachineType(_, _)
FirstMachineType(possible, i) ==
  IF i > Len(possible) THEN ""
  ELSE IF possible[i] = "" THEN FirstMachineType(possible, i + 1)
  ELSE IF TrimUpper(possible[i]) # "" THEN TrimUpper(possible[i])
  ELSE FirstMachineType(possible, i + 1)

\* the result null is the string ""
getOperationMachineType(op) ==
  IF ~op.some THEN ""
  ELSE FirstMachineType(
         << op.machine_type,
            IF op.machine.some THEN op.machine.type ELSE "",
            op.type,
            op.operation_type >>, 1)

----------------------------------------------------------------------------
(* The useMemo "metrics" *)

EmptyMetrics ==
  [totalTasks |-> 0, tMdoMinutes |-> Zero, tMaqMinutes |-> Zero,
   pauseMinutes |-> Zero, prepVerifyMinutes |-> Zero,
   earliestStart |-> NoDate, latestEnd |-> NoDate,
   perPieceMdo |-> NoNumber, perPieceMaq |-> NoNumber]

\* tasks.map(...): start, end and duration (null when a timestamp is missing)
TaskDuration(t) ==
  LET s == parseISO(t.start_at)
      e == parseISO(t.end_at)
  IN  IF ~s.some \/ ~e.some
      THEN [task |-> t, start |-> s, end |-> e, duration |-> Absent]
      ELSE [task |-> t, start |-> s, end |-> e, duration |-> Num(minutesBetween(s.t, e.t))]

subtractPausesForConventional(op) == getOperationMachineType(op) = "CONVENTIONAL"

\* variant: the overlap of a task is not apportioned
PauseOverlap_Unapportioned(z, td) ==
  FromInt(sumPauseOverlapBetween(z, td.start.t, td.end.t))

\* pause overlap of one task, apportioned
PauseOverlap(z, td) ==
  RDivInt(RDivInt(FromInt(sumPauseOverlapBetween(z, td.start.t, td.end.t)),
                  OrOne(td.task.num_benches)),
          OrOne(td.task.num_machines))

\* variant: the pause overlap is added instead of subtracted
AdjustedDuration_Added(durationMinutes, pauseOverlap, subtract) ==
  RMax0(RAdd(FromInt(durationMinutes), IF subtract THEN pauseOverlap ELSE Zero))

AdjustedDuration(durationMinutes, pauseOverlap, subtract) ==
  RMax0(RSub(FromInt(durationMinutes), IF subtract THEN pauseOverlap ELSE Zero))

OperatorTime(adjustedDuration, td) ==
  RDivInt(RDivInt(adjustedDuration, Max1(OrOne(td.task.num_machines))),
          Max1(OrOne(td.task.num_benches)))

\* variant: machine time is divided by the machine count as well
MachineTime_PerMachine(adjustedDuration, td) ==
  RDivInt(RDivInt(adjustedDuration, Max1(OrOne(td.task.num_benches))),
          Max1(OrOne(td.task.num_machines)))

MachineTime(adjustedDuration, td) ==
  RDivInt(adjustedDuration, Max1(OrOne(td.task.num_benches)))

\* variant: only preparation counts as prep/verification
IsPrepVerify_PreparationOnly(t) == t.process_type = "PREPARATION"

IsPrepVerify(t) == t.process_type = "PREPARATION" \/ t.process_type = "QUALITY_CONTROL"

\* variant: the start of the last task seen
Earliest_LastSeen(earliest, start) == start

\* if (!earliest || (td.start && td.start < earliest)) earliest = td.start ?? earliest
Earliest(earliest, start) ==
  IF ~earliest.some \/ (start.some /\ start.t < earliest.t)
  THEN (IF start.some THEN start ELSE earliest)
  ELSE earliest

\* if (!latest || (td.end && td.end > latest)) latest = td.end ?? latest
Latest(latest, end) ==
  IF ~latest.some \/ (end.some /\ end.t > latest.t)
  THEN (IF end.some THEN end ELSE latest)
  ELSE latest

LoopInit ==
  [tMdo |-> Zero, tMaq |-> Zero, totalRawActiveMinutes |-> 0, prepVerify |-> 0,
   earliest |-> NoDate, latest |-> NoDate, totalPauseOverlapFromTasks |-> Zero,
   rows |-> <<>>]

\* one iteration of "for (const td of taskDurations)"
LoopBody(z, subtract, td, acc) ==
  IF td.duration.some /\ td.start.some /\ td.end.some
  THEN LET durationMinutes == td.duration.v
           pauseOverlap == PauseOverlap(z, td)
           adjustedDuration == AdjustedDuration(durationMinutes, pauseOverlap, subtract)
           operatorTime == OperatorTime(adjustedDuration, td)
           machineTime == MachineTime(adjustedDuration, td)
       IN  [tMdo |-> RAdd(acc.tMdo, operatorTime),
            tMaq |-> RAdd(acc.tMaq, machineTime),
            totalRawActiveMinutes |-> acc.totalRawActiveMinutes + durationMinutes,
            prepVerify |-> IF IsPrepVerify(td.task)
                           THEN acc.prepVerify + durationMinutes
                           ELSE acc.prepVerify,
            earliest |-> Earliest(acc.earliest, td.start),
            latest |-> Latest(acc.latest, td.end),
            totalPauseOverlapFromTasks |-> RAdd(acc.totalPauseOverlapFromTasks, pauseOverlap),
            rows |-> Append(acc.rows,
                      [counted |-> TRUE, duration |-> durationMinutes,
                       pauseOverlap |-> pauseOverlap,
                       adjustedDuration |-> adjustedDuration,
                       operatorTime |-> operatorTime, machineTime |-> machineTime])]
  ELSE [acc EXCEPT !.rows = Append(acc.rows,
                      [counted |-> FALSE, duration |-> 0, pauseOverlap |-> Zero,
                       adjustedDuration |-> Zero,
                       operatorTime |-> Zero, machineTime |-> Zero])]

RECURSIVE Loop(_, _, _, _, _)
Loop(z, subtract, list, i, acc) ==
  IF i > Len(list) THEN acc
  ELSE Loop(z, subtract, list, i + 1, LoopBody(z, subtract, TaskDuration(list[i]), acc))

\* the aggregation loop of one render, for the props and state of that render
RunLoop(z, op, tk) ==
  Loop(z, subtractPausesForConventional(op), tk.list, 1, LoopInit)

\* variant: no aggregate subtraction
FinalOperatorMinutes_Skipped(tMdo, pauseMinutes) == tMdo

\* tMdo = tMdo - pauseMinutes
FinalOperatorMinutes(tMdo, pauseMinutes) == RSub(tMdo, pauseMinutes)

\* order?.num_pieces ?? null
NumPieces(ord) == IF ord.some THEN ord.num_pieces ELSE Absent

\* variant: only the sign of numPieces is tested, with ">="
PerPiece_NonNegative(total, numPieces) ==
  IF numPieces.some /\ numPieces.v >= 0
  THEN Number(RDivInt(total, numPieces.v))
  ELSE NoNumber

\* a per-piece metric: null unless "numPieces && numPieces > 0"
PerPiece(total, numPieces) ==
  IF numPieces.some /\ numPieces.v # 0 /\ numPieces.v > 0
  THEN Number(RDivInt(total, numPieces.v))
  ELSE NoNumber

\* the value the useMemo returns, given the result acc of the loop
MetricsOf(acc, ord, tk) ==
  LET pauseMinutes == acc.totalPauseOverlapFromTasks
      tMdo == FinalOperatorMinutes(acc.tMdo, pauseMinutes)
  IN  [totalTasks |-> Len(tk.list),
       tMdoMinutes |-> tMdo,
       tMaqMinutes |-> acc.tMaq,
       pauseMinutes |-> pauseMinutes,
       prepVerifyMinutes |-> FromInt(acc.prepVerify),
       earliestStart |-> acc.earliest,
       latestEnd |-> acc.latest,
       perPieceMdo |-> PerPiece(tMdo, NumPieces(ord)),
       perPieceMaq |-> PerPiece(acc.tMaq, NumPieces(ord))]

\* the useMemo before the first render
NoMemo == [metrics |-> EmptyMetrics, rows |-> <<>>]

\* variant: no early return for an empty or missing task list
Memo_NoEarlyReturn(z, op, ord, tk) ==
  LET acc == RunLoop(z, op, tk)
  IN  [metrics |-> MetricsOf(acc, ord, tk), rows |-> acc.rows]

\* one evaluation of the useMemo: the metrics and the per-task locals of the
\* loop (none when it returns early)
Memo(z, op, ord, tk) ==
  IF ~tk.some \/ Len(tk.list) = 0
  THEN [metrics |-> EmptyMetrics, rows |-> <<>>]
  ELSE LET acc == RunLoop(z, op, tk)
       IN  [metrics |-> MetricsOf(acc, ord, tk), rows |-> acc.rows]

ComputeMetrics(z, op, ord, tk) == Memo(z, op, ord, tk).metrics

----------------------------------------------------------------------------
(* Inputs *)

\* the instant that is h:mi UTC on day d
At(d, h, mi) == d * MinutesPerDay + h * 60 + mi

TimesOfDay ==
  { At(0, 0, 0), At(0, 8, 0), At(0, 9, 0), At(0, 10, 0), At(0, 10, 5),
    At(0, 10, 10), At(0, 12, 30), At(0, 12, 55), At(0, 13, 20),
    At(0, 15, 30), At(0, 15, 40), At(0, 16, 40) }

Instants == { d * MinutesPerDay + m : d \in 0..MaxDay, m \in TimesOfDay }

Tasks ==
  { Task(Iso(At(0, 8, 0)), Iso(At(0, 9, 0)), Num(1), Num(1), "MACHINING"),
    Task(Iso(At(0, 10, 0)), Iso(At(0, 10, 10)), Absent, Absent, "PREPARATION"),
    Task(Iso(At(0, 9, 30)), Iso(At(0, 13, 0)), Num(1), Num(2), "QUALITY_CONTROL"),
    Task(Iso(At(0, 12, 0)), Iso(At(0, 14, 0)), Num(2), Num(2), "MACHINING"),
    Task(Iso(At(0, 8, 0)), Iso(At(0, 9, 0)), Num(0), Num(1), "MACHINING"),
    Task(Iso(At(0, 10, 0)), Iso(At(0, 10, 10)), Num(1), Num(0), "MACHINING"),
    Task(Iso(At(0, 9, 0)), Iso(At(0, 8, 0)), Num(1), Num(1), "PREPARATION"),
    Task(Iso(At(0, 13, 0)), Iso(At(0, 12, 0)), Num(0), Num(1), "PREPARATION"),
    Task(NullString, Iso(At(0, 9, 0)), Num(1), Num(1), "MACHINING"),
    Task(Iso(At(0, 10, 0)), InvalidString, Num(2), Absent, "PREPARATION"),
    Task(Iso(At(0, 15, 35)), Iso(At(1, 10, 5)), Num(1), Num(1), "MACHINING") }

RECURSIVE ListsUpTo(_)
ListsUpTo(n) ==
  IF n = 0 THEN { <<>> }
  ELSE ListsUpTo(n - 1)
         \cup { Append(l, t) : l \in { x \in ListsUpTo(n - 1) : Len(x) = n - 1 }, t \in Tasks }

TaskLists == { NoTasks } \cup { TaskList(l) : l \in ListsUpTo(MaxTasks) }

Operations ==
  { NoOperation,
    Operation(1, "", NoMachine),
    Operation(1, "", Machine("CNC")),
    Operation(1, "", Machine("CONVENTIONAL")),
    Operation(1, " conventional ", Machine("CONVENTIONAL")) }

Orders == { NoOrder, Order(Absent), Order(Num(0)), Order(Num(0 - 1)), Order(Num(10)) }

NoCall == [start |-> 0, end |-> 0, done |-> FALSE, result |-> 0]

\* no error message (null)
NoError == ""

\* OperationData before its fetch effect has run
IdleFetch ==
  /\ loading = FALSE
  /\ error = NoError
  /\ fetches = <<>>

\* no TaskDetail page
NoDetail == [mounted |-> FALSE]

NoRequest == [kind |-> "none", payload |-> <<>>, starts |-> FALSE]

IdleDetail ==
  /\ detail = NoDetail
  /\ serverTask = [some |-> FALSE]
  /\ request = NoRequest
  /\ intervals = {}
  /\ timersCreated = 0
  /\ now = 0
  /\ navigated = FALSE
  /\ edits = 0

\* a page or form that is not on screen
NoPage == [mounted |-> FALSE]

IdlePages ==
  /\ adminOrders = NoPage
  /\ orderForms = NoPage
  /\ adminList = NoPage

----------------------------------------------------------------------------
(* The pause-overlap calculator applied to one interval *)

InitPause ==
  /\ tz \in Timezones
  /\ pauseCall \in { [start |-> s, end |-> e, done |-> FALSE, result |-> 0] :
                       s \in Instants, e \in Instants }
  /\ operation = NoOperation
  /\ order = NoOrder
  /\ tasks = NoTasks
  /\ rendered = FALSE
  /\ memo = NoMemo
  /\ IdleFetch
  /\ IdleDetail
  /\ IdlePages

CallSumPause ==
  /\ ~pauseCall.done
  /\ pauseCall' = [pauseCall EXCEPT
                     !.done = TRUE,
                     !.result = sumPauseOverlapBetween(tz, pauseCall.start, pauseCall.end)]
  /\ UNCHANGED <<tz, operation, order, tasks, rendered, memo, fetchVars, detailVars, pageVars>>

NextPause == CallSumPause

SpecPause == InitPause /\ [][NextPause]_vars

----------------------------------------------------------------------------
(* The metrics of OperationData for one task list *)

InitMetrics ==
  /\ tz \in Timezones
  /\ pauseCall = NoCall
  /\ operation \in Operations
  /\ order \in Orders
  /\ tasks \in TaskLists
  /\ rendered = FALSE
  /\ memo = NoMemo
  /\ IdleFetch
  /\ IdleDetail
  /\ IdlePages

\* the first render: the useMemo computes the metrics
Render ==
  /\ ~rendered
  /\ rendered' = TRUE
  /\ memo' = Memo(tz, operation, order, tasks)
  /\ UNCHANGED <<tz, pauseCall, operation, order, tasks, fetchVars, detailVars, pageVars>>

\* the parent passes another operation: the useMemo recomputes
ChangeOperation(op) ==
  /\ rendered
  /\ op # operation
  /\ operation' = op
  /\ memo' = Memo(tz, op, order, tasks)
  /\ UNCHANGED <<tz, pauseCall, order, tasks, rendered, fetchVars, detailVars, pageVars>>

NextMetrics ==
  \/ Render
  \/ \E op \in Operations : ChangeOperation(op)

SpecMetrics == InitMetrics /\ [][NextMetrics]_vars

----------------------------------------------------------------------------
(* OperationData: the tasks fetch effect *)

\* the operations the parent page can pass as the prop "operation"
SelectableOperations ==
  { NoOperation,
    Operation(1, "", Machine("CNC")),
    Operation(2, " conventional ", Machine("CONVENTIONAL")) }

\* the body of GET /operations/{id}/tasks
ServerTasks(id) ==
  IF id = 1
  THEN << Task(Iso(At(0, 8, 0)), Iso(At(0, 9, 0)), Num(1), Num(1), "MACHINING") >>
  ELSE << Task(Iso(At(0, 9, 30)), Iso(At(0, 13, 0)), Num(1), Num(2), "QUALITY_CONTROL"),
          Task(Iso(At(0, 10, 0)), Iso(At(0, 10, 10)), Absent, Absent, "PREPARATION") >>

\* how a fetch can end: a 2xx response, another response, a network failure
FetchOutcomes == {"ok", "http", "network"}

\* the message of the error the async function catches
FetchErrorMessage(outcome) ==
  IF outcome = "http" THEN "Falha ao obter tarefas" ELSE "Failed to fetch"

\* one run of the effect that started a fetch
Fetch(id) == [op |-> id, cancelled |-> FALSE, outcome |-> "pending"]

\* variant: the effect returns no cleanup function
Cleanup_Missing(fs) == fs

\* the cleanup of the previous run of the effect: cancelled = true
Cleanup(fs) ==
  IF Len(fs) = 0 THEN fs ELSE [fs EXCEPT ![Len(fs)].cancelled = TRUE]

InitFetch ==
  /\ tz \in Timezones
  /\ pauseCall = NoCall
  /\ operation = NoOperation
  /\ order \in {NoOrder, Order(Num(10))}
  /\ tasks = NoTasks
  /\ rendered = TRUE
  /\ memo = Memo(tz, NoOperation, order, NoTasks)
  /\ IdleFetch
  /\ IdleDetail
  /\ IdlePages

\* the parent passes another operation: the cleanup of the previous run, then
\* the effect, then the render with the new prop
SelectOperation(op) ==
  /\ rendered
  /\ op # operation
  /\ op.some => Len(fetches) < MaxFetches
  /\ operation' = op
  /\ IF ~op.some
     THEN /\ tasks' = NoTasks
          /\ error' = NoError
          /\ fetches' = Cleanup(fetches)
          /\ UNCHANGED loading
     ELSE /\ loading' = TRUE
          /\ error' = NoError
          /\ fetches' = Append(Cleanup(fetches), Fetch(op.id))
          /\ UNCHANGED tasks
  /\ memo' = Memo(tz, op, order, tasks')
  /\ UNCHANGED <<tz, pauseCall, order, rendered, detailVars, pageVars>>

\* the fetch of run i ends: the rest of the async function of that run
FetchSettles(i, outcome) ==
  /\ i \in DOMAIN fetches
  /\ fetches[i].outcome = "pending"
  /\ IF fetches[i].cancelled
     THEN /\ fetches' = [fetches EXCEPT ![i].outcome = "ignored"]
          /\ UNCHANGED <<tasks, error, loading, memo>>
     ELSE /\ fetches' = [fetches EXCEPT ![i].outcome = "applied"]
          /\ IF outcome = "ok"
             THEN /\ tasks' = TaskList(ServerTasks(fetches[i].op))
                  /\ UNCHANGED error
             ELSE /\ error' = FetchErrorMessage(outcome)
                  /\ UNCHANGED tasks
          /\ loading' = FALSE
          /\ memo' = Memo(tz, operation, order, tasks')
  /\ UNCHANGED <<tz, pauseCall, operation, order, rendered, detailVars, pageVars>>

\* the component unmounts: the cleanup of the last run
UnmountOperationData ==
  /\ rendered
  /\ rendered' = FALSE
  /\ fetches' = Cleanup(fetches)
  /\ UNCHANGED <<tz, pauseCall, operation, order, tasks, memo, loading, error, detailVars, pageVars>>

NextFetch ==
  \/ \E op \in SelectableOperations : SelectOperation(op)
  \/ \E i \in 1..MaxFetches, outcome \in FetchOutcomes : FetchSettles(i, outcome)
  \/ UnmountOperationData

SpecFetch == InitFetch /\ [][NextFetch]_vars

----------------------------------------------------------------------------
(* TaskDetail *)

\* In TaskDetail an instant Iso(t) is second t of the clock "now".

\* task?.start_at of a task that is null
Undefined == [kind |-> "undefined", t |-> 0]

\* a string that is not falsy
Truthy(str) == str.kind \in {"iso", "invalid"}

\* a task as the REST API returns it
DetailTask(start_at, end_at, good_pieces, bad_pieces, num_benches, num_machines, notes) ==
  [some |-> TRUE, start_at |-> start_at, end_at |-> end_at,
   good_pieces |-> good_pieces, bad_pieces |-> bad_pieces,
   num_benches |-> num_benches, num_machines |-> num_machines, notes |-> notes]

\* useState<Task | null>(null)
NullTask ==
  [some |-> FALSE, start_at |-> Undefined, end_at |-> Undefined,
   good_pieces |-> Absent, bad_pieces |-> Absent,
   num_benches |-> Absent, num_machines |-> Absent, notes |-> ""]

\* the tasks the page can be opened on: not started, running, completed
ServerTaskInits ==
  { DetailTask(NullString, NullString, Absent, Absent, Absent, Absent, ""),
    DetailTask(Iso(0), NullString, Num(1), Absent, Num(1), Num(1), ""),
    DetailTask(Iso(0), Iso(1), Num(3), Num(0), Num(1), Num(2), "obs") }

\* the server applies the body of PATCH /tasks/{id} and returns the task
ApplyPatch(t, payload) ==
  [k \in DOMAIN t |-> IF k \in DOMAIN payload THEN payload[k] ELSE t[k]]

\* how a PATCH can end: applied and answered, refused by the server, or
\* applied with the response lost
PatchOutcomes == {"ok", "rejected", "lost"}

PatchErrorMessage(outcome) ==
  IF outcome = "rejected" THEN "(422) Unprocessable Entity" ELSE "Failed to fetch"

computeDurationSeconds(t, clock) ==
  IF ~Truthy(t.start_at) THEN 0
  ELSE LET end == IF Truthy(t.end_at) THEN t.end_at.t ELSE clock
       IN  IF end - t.start_at.t > 0 THEN end - t.start_at.t ELSE 0

\* the state of the component after its first render and effects
MountedDetail ==
  [mounted |-> TRUE, loading |-> TRUE, error |-> NoError, task |-> NullTask,
   goodPieces |-> Absent, badPieces |-> Absent, numBenches |-> Absent,
   numMachines |-> Absent, notes |-> "", hasUnsavedChanges |-> FALSE,
   timerSeconds |-> 0, timerRef |-> 0]

checkForChanges(d) ==
  IF ~d.task.some THEN FALSE
  ELSE \/ d.goodPieces # d.task.good_pieces
       \/ d.badPieces # d.task.bad_pieces
       \/ d.numBenches # d.task.num_benches
       \/ d.numMachines # d.task.num_machines
       \/ d.notes # d.task.notes

\* the dependencies of the timer effect
TimerDeps(t) == <<t.start_at, t.end_at>>

\* task?.start_at && !task?.end_at
IsRunning(t) == t.some /\ Truthy(t.start_at) /\ ~Truthy(t.end_at)

\* variant: the effect neither clears the previous interval nor returns a
\* cleanup
RunTimerEffect_NoClear(timerRef, ivs, created, t) ==
  IF IsRunning(t)
  THEN [ref |-> created + 1, ivs |-> ivs \cup {created + 1}, created |-> created + 1]
  ELSE [ref |-> timerRef, ivs |-> ivs, created |-> created]

\* one run of the timer effect, after the cleanup of the previous run:
\* timerRef 0 is null
RunTimerEffect(timerRef, ivs, created, t) ==
  LET cleared == ivs \ {timerRef}
  IN  IF IsRunning(t)
      THEN [ref |-> created + 1, ivs |-> cleared \cup {created + 1}, created |-> created + 1]
      ELSE [ref |-> 0, ivs |-> cleared, created |-> created]

\* the render of the state d and the effects whose dependencies changed
Commit(d) ==
  LET timer == IF TimerDeps(d.task) # TimerDeps(detail.task)
               THEN RunTimerEffect(detail.timerRef, intervals, timersCreated, d.task)
               ELSE [ref |-> detail.timerRef, ivs |-> intervals, created |-> timersCreated]
  IN  /\ detail' = [d EXCEPT !.hasUnsavedChanges = checkForChanges(d),
                             !.timerRef = timer.ref]
      /\ intervals' = timer.ivs
      /\ timersCreated' = timer.created

\* the page renders its buttons and form (not the spinner, not the alert)
PageShown ==
  /\ detail.mounted
  /\ ~detail.loading
  /\ detail.error = NoError
  /\ detail.task.some
  /\ ~navigated

\* the "disabled" attribute of the start/stop button
StartStopDisabled ==
  detail.loading \/ (Truthy(detail.task.start_at) /\ Truthy(detail.task.end_at))

\* setTask(data) and the population of the editable fields
WithTask(d, data) ==
  [d EXCEPT !.task = data,
            !.goodPieces = data.good_pieces,
            !.badPieces = data.bad_pieces,
            !.numBenches = data.num_benches,
            !.numMachines = data.num_machines,
            !.notes = data.notes]

metricsIdle ==
  /\ tz = "fixed"
  /\ pauseCall = NoCall
  /\ operation = NoOperation
  /\ order = NoOrder
  /\ tasks = NoTasks
  /\ rendered = FALSE
  /\ memo = NoMemo
  /\ IdleFetch

otherVars ==
  <<tz, pauseCall, operation, order, tasks, rendered, memo, fetchVars, pageVars>>

InitDetail ==
  /\ metricsIdle
  /\ IdlePages
  /\ serverTask \in ServerTaskInits
  /\ intervals = {}
  /\ timersCreated = 0
  /\ now = 1
  /\ navigated = FALSE
  /\ edits = 0
  /\ \/ /\ detail = MountedDetail
        /\ request = [kind |-> "fetch", payload |-> <<>>, starts |-> FALSE]
     \/ /\ detail = [MountedDetail EXCEPT !.loading = FALSE,
                                          !.error = "Task ID invalido"]
        /\ request = NoRequest

\* GET /task/{taskId} ends: the rest of fetchTask
FetchTaskSettles(ok) ==
  /\ request.kind = "fetch"
  /\ request' = NoRequest
  /\ IF ~detail.mounted
     THEN UNCHANGED <<detail, intervals, timersCreated>>
     ELSE IF ok
     THEN Commit([WithTask(detail, serverTask) EXCEPT
                    !.timerSeconds = computeDurationSeconds(serverTask, now),
                    !.loading = FALSE])
     ELSE Commit([detail EXCEPT !.error = "Erro ao buscar tarefa", !.loading = FALSE])
  /\ UNCHANGED <<serverTask, now, navigated, edits, otherVars>>

\* variant: a running task is started again
StartStopPayload_AlwaysStart(t, nowIso) ==
  IF ~(Truthy(t.start_at) /\ Truthy(t.end_at)) THEN [start_at |-> nowIso]
  ELSE <<>>

\* the body handleStartStop sends; <<>> when it sends nothing
StartStopPayload(t, nowIso) ==
  IF ~Truthy(t.start_at) THEN [start_at |-> nowIso]
  ELSE IF ~Truthy(t.end_at) THEN [end_at |-> nowIso]
  ELSE <<>>

\* a click on the start/stop button, up to the await
handleStartStop ==
  /\ PageShown
  /\ LET payload == StartStopPayload(detail.task, Iso(now))
     IN  IF DOMAIN payload = {}
         THEN UNCHANGED <<detail, request>>
         ELSE /\ detail' = [detail EXCEPT !.error = NoError, !.loading = TRUE]
              /\ request' = [kind |-> "startStop", payload |-> payload,
                             starts |-> ~Truthy(detail.task.start_at)]
  /\ UNCHANGED <<serverTask, intervals, timersCreated, now, navigated, edits, otherVars>>

\* the task the server holds after a PATCH that ends with outcome
Patched(outcome) ==
  IF outcome = "rejected" THEN serverTask ELSE ApplyPatch(serverTask, request.payload)

\* the PATCH of handleStartStop ends: the rest of handleStartStop
StartStopSettles(outcome) ==
  /\ request.kind = "startStop"
  /\ request' = NoRequest
  /\ serverTask' = Patched(outcome)
  /\ IF ~detail.mounted
     THEN UNCHANGED <<detail, intervals, timersCreated>>
     ELSE IF outcome = "ok"
     THEN Commit([detail EXCEPT
                    !.task = Patched(outcome),
                    !.timerSeconds = IF request.starts THEN 0
                                     ELSE computeDurationSeconds(Patched(outcome), now),
                    !.loading = FALSE])
     ELSE Commit([detail EXCEPT !.error = PatchErrorMessage(outcome),
                                !.loading = FALSE])
  /\ UNCHANGED <<now, navigated, edits, otherVars>>

\* the body handleSaveAll sends
SavePayload(d) ==
  [good_pieces |-> d.goodPieces, bad_pieces |-> d.badPieces,
   num_benches |-> d.numBenches, num_machines |-> d.numMachines,
   notes |-> d.notes]

\* the form is submitted: handleSaveAll up to the await
handleSaveAll ==
  /\ PageShown
  /\ detail' = [detail EXCEPT !.loading = TRUE]
  /\ request' = [kind |-> "save", payload |-> SavePayload(detail), starts |-> FALSE]
  /\ UNCHANGED <<serverTask, intervals, timersCreated, now, navigated, edits, otherVars>>

\* the promise of handleSaveAll rejects: never, its try/catch handles every
\* error of the PATCH
handleSaveAllRejects(outcome) == FALSE

\* the rest of handleSaveAll after the await
SaveAllDone(d, outcome) ==
  IF outcome = "ok"
  THEN [WithTask(d, Patched(outcome)) EXCEPT !.loading = FALSE]
  ELSE [d EXCEPT !.error = PatchErrorMessage(outcome), !.loading = FALSE]

\* the PATCH of handleSaveAll ends; when handleBackClick awaits it, the rest of
\* handleBackClick follows
SaveSettles(outcome) ==
  /\ request.kind \in {"save", "backSave"}
  /\ request' = NoRequest
  /\ serverTask' = Patched(outcome)
  /\ IF ~detail.mounted
     THEN UNCHANGED <<detail, intervals, timersCreated>>
     ELSE IF request.kind = "backSave" /\ handleSaveAllRejects(outcome)
     THEN Commit([SaveAllDone(detail, outcome) EXCEPT !.error = "Erro ao salvar"])
     ELSE Commit(SaveAllDone(detail, outcome))
  /\ navigated' = IF request.kind = "backSave" /\ ~handleSaveAllRejects(outcome)
                  THEN TRUE ELSE navigated
  /\ UNCHANGED <<now, edits, otherVars>>

\* a click on "Voltar"; confirmLeave is the answer to window.confirm
handleBackClick(confirmLeave) ==
  /\ PageShown
  /\ IF ~detail.hasUnsavedChanges \/ ~confirmLeave
     THEN /\ navigated' = TRUE
          /\ UNCHANGED <<detail, request>>
     ELSE /\ detail' = [detail EXCEPT !.loading = TRUE]
          /\ request' = [kind |-> "backSave", payload |-> SavePayload(detail),
                         starts |-> FALSE]
          /\ UNCHANGED navigated
  /\ UNCHANGED <<serverTask, intervals, timersCreated, now, edits, otherVars>>

\* the values the EditTask dialog can give start_at or end_at
EditedStamps == {NullString, Iso(0), Iso(now)}

\* the EditTask dialog has saved start_at or end_at: onSaved(updated); the
\* server is taken to refuse an end_at for a task without start_at
handleTaskSaved(field, value) ==
  /\ PageShown
  /\ edits < MaxEdits
  /\ LET updated == [serverTask EXCEPT ![field] = value]
     IN  /\ updated # detail.task
         /\ Truthy(updated.end_at) => Truthy(updated.start_at)
         /\ serverTask' = updated
         /\ Commit([WithTask(detail, updated) EXCEPT
                      !.timerSeconds = computeDurationSeconds(updated, now)])
  /\ edits' = edits + 1
  /\ UNCHANGED <<request, now, navigated, otherVars>>

EditableFields == {"goodPieces", "badPieces", "numBenches", "numMachines"}

increment(prev) ==
  IF ~prev.some THEN Num(1)
  ELSE Num(IF prev.v + 1 > 0 THEN prev.v + 1 ELSE 0)

decrement(prev) ==
  IF ~prev.some THEN Num(0)
  ELSE Num(IF prev.v - 1 > 0 THEN prev.v - 1 ELSE 0)

\* a click on "+" or "-" of a counter
ClickCounter(field, up) ==
  /\ PageShown
  /\ edits < MaxEdits
  /\ Commit([detail EXCEPT ![field] = IF up THEN increment(@) ELSE decrement(@)])
  /\ edits' = edits + 1
  /\ UNCHANGED <<serverTask, request, now, navigated, otherVars>>

\* the user types in the notes
ChangeNotes(text) ==
  /\ PageShown
  /\ edits < MaxEdits
  /\ text # detail.notes
  /\ Commit([detail EXCEPT !.notes = text])
  /\ edits' = edits + 1
  /\ UNCHANGED <<serverTask, request, now, navigated, otherVars>>

\* the alert is closed: setError(null)
DismissError ==
  /\ detail.mounted
  /\ ~detail.loading
  /\ detail.error # NoError
  /\ detail' = [detail EXCEPT !.error = NoError]
  /\ UNCHANGED <<serverTask, request, intervals, timersCreated, now, navigated,
                 edits, otherVars>>

\* a second passes: the callback of every live interval runs
Tick ==
  /\ now < MaxNow
  /\ now' = now + 1
  /\ detail' = IF detail.mounted
               THEN [detail EXCEPT !.timerSeconds = @ + Cardinality(intervals)]
               ELSE detail
  /\ UNCHANGED <<serverTask, request, intervals, timersCreated, navigated, edits,
                 otherVars>>

\* the page unmounts: the cleanups of the fetch effect and of the timer effect
UnmountDetail ==
  /\ detail.mounted
  /\ detail' = [detail EXCEPT !.mounted = FALSE, !.timerRef = 0]
  /\ intervals' = intervals \ {detail.timerRef}
  /\ UNCHANGED <<serverTask, request, timersCreated, now, navigated, edits, otherVars>>

NextDetail ==
  \/ \E ok \in BOOLEAN : FetchTaskSettles(ok)
  \/ handleStartStop
  \/ \E outcome \in PatchOutcomes : StartStopSettles(outcome)
  \/ handleSaveAll
  \/ \E outcome \in PatchOutcomes : SaveSettles(outcome)
  \/ \E confirmLeave \in BOOLEAN : handleBackClick(confirmLeave)
  \/ \E field \in {"start_at", "end_at"}, value \in EditedStamps :
       handleTaskSaved(field, value)
  \/ \E field \in EditableFields, up \in BOOLEAN : ClickCounter(field, up)
  \/ \E text \in {"", "obs"} : ChangeNotes(text)
  \/ DismissError
  \/ Tick
  \/ UnmountDetail

SpecDetail == InitDetail /\ [][NextDetail]_vars

----------------------------------------------------------------------------
(* JavaScript strings.  A string that is searched or converted is the      *)
(* sequence of its characters; null is Null.                               *)

Null == [some |-> FALSE]
Some(v) == [some |-> TRUE, v |-> v]

\* String.prototype.trim
RECURSIVE trim(_)
trim(s) ==
  IF s = <<>> THEN s
  ELSE IF Head(s) = " " THEN trim(Tail(s))
  ELSE IF s[Len(s)] = " " THEN trim(SubSeq(s, 1, Len(s) - 1))
  ELSE s

\* String.prototype.toLowerCase, for the letters the data uses
toLowerCase(s) ==
  LET LowerChar(c) == CASE c = "O" -> "o"
                        [] c = "P" -> "p"
                        [] c = "F" -> "f"
                        [] OTHER -> c
  IN [i \in 1..Len(s) |-> LowerChar(s[i])]

\* String.prototype.includes
includes(s, q) ==
  \E i \in 0..(Len(s) - Len(q)) : SubSeq(s, i + 1, i + Len(q)) = q

\* String(n) of a natural number
RECURSIVE String(_)
String(n) ==
  LET DigitChars == <<"0", "1", "2", "3", "4", "5", "6", "7", "8", "9">>
  IN IF n < 10 THEN <<DigitChars[n + 1]>>
     ELSE Append(String(n \div 10), DigitChars[(n % 10) + 1])

\* a sequence without its i-th element
RemoveAt(seq, i) == SubSeq(seq, 1, i - 1) \o SubSeq(seq, i + 1, Len(seq))

\* the elements of a sequence
Range(seq) == { seq[i] : i \in 1..Len(seq) }

----------------------------------------------------------------------------
(* AdminOrders: the drill-down year -> month -> order -> operation         *)

\* A date string "y-m-d" is the sequence of its parts between the dashes.

\* parseInt(str, 10) of the year, month and day strings of the data
parseInt(str) ==
  CASE str = "2024" -> 2024
    [] str = "2025" -> 2025
    [] str = "01" -> 1
    [] str = "03" -> 3
    [] str = "05" -> 5
    [] str = "09" -> 9
    [] str = "10" -> 10

yearOf(dateStr) == IF ~dateStr.some THEN "Unknown" ELSE dateStr.v[1]

monthOf(dateStr) ==
  IF ~dateStr.some THEN "Unknown"
  ELSE IF Len(dateStr.v) >= 2 THEN dateStr.v[2] ELSE "Unknown"

\* the answer of GET /orders
ServerOrders ==
  LET AdminOrder(id, order_number, material_number, start_date) ==
        [id |-> id, order_number |-> order_number,
         material_number |-> material_number, start_date |-> start_date]
  IN << AdminOrder(1, 10, 7, Some(<<"2024", "03", "09">>)),
        AdminOrder(2, 21, 8, Some(<<"2024", "03", "05">>)),
        AdminOrder(3, 30, 7, Some(<<"2025", "01", "10">>)),
        AdminOrder(4, 41, 9, Null) >>

\* the answer of GET /orders/{order_number}/operations
ServerOperations(order_number) ==
  LET AdminOperation(id, operation_code) ==
        [id |-> id, operation_code |-> operation_code]
  IN CASE order_number = 10 ->
            << AdminOperation(1, <<"O", "P", "1", "0">>),
               AdminOperation(2, <<"o", "p", "2", "0">>) >>
       [] order_number = 21 -> << AdminOperation(3, <<"O", "P", "1", "0">>) >>
       [] order_number = 41 -> << AdminOperation(4, <<"F", "1">>) >>
       [] OTHER -> <<>>

\* the elements of a set as a sequence
RECURSIVE SeqOf(_)
SeqOf(S) ==
  IF S = {} THEN <<>> ELSE LET x == CHOOSE x \in S : TRUE IN <<x>> \o SeqOf(S \ {x})

\* newest first, "Unknown" last
years(s) ==
  LET Before(a, b) == IF a = "Unknown" THEN FALSE
                      ELSE IF b = "Unknown" THEN TRUE
                      ELSE parseInt(b) - parseInt(a) < 0
  IN SortSeq(SeqOf({ yearOf(o.start_date) : o \in Range(s.orders) }), Before)

\* ascending, "Unknown" last
monthsForYear(s) ==
  LET Before(a, b) == IF a = "Unknown" THEN FALSE
                      ELSE IF b = "Unknown" THEN TRUE
                      ELSE parseInt(a) - parseInt(b) < 0
  IN IF ~s.selectedYear.some THEN <<>>
     ELSE SortSeq(SeqOf({ monthOf(o.start_date) :
                            o \in { p \in Range(s.orders) :
                                      yearOf(p.start_date) = s.selectedYear.v } }),
                  Before)

\* the orders of the year and month, by (a.start_date ?? "").localeCompare
\* (dates of one year and month differ in the day)
ordersForMonth(s) ==
  LET InMonth(o) == /\ yearOf(o.start_date) = s.selectedYear.v
                    /\ monthOf(o.start_date) = s.selectedMonth.v
      Before(a, b) == IF ~b.start_date.some THEN FALSE
                      ELSE IF ~a.start_date.some THEN TRUE
                      ELSE parseInt(a.start_date.v[3]) < parseInt(b.start_date.v[3])
  IN IF ~s.selectedYear.some \/ ~s.selectedMonth.some THEN <<>>
     ELSE SortSeq(SelectSeq(s.orders, InMonth), Before)

filteredOrdersForMonth(s) ==
  LET q == toLowerCase(trim(s.orderSearch))
      Matches(o) == \/ includes(toLowerCase(String(o.order_number)), q)
                    \/ includes(toLowerCase(String(o.material_number)), q)
  IN IF q = <<>> THEN ordersForMonth(s) ELSE SelectSeq(ordersForMonth(s), Matches)

filteredOperations(s) ==
  LET q == toLowerCase(trim(s.opSearch))
      Matches(op) == includes(toLowerCase(op.operation_code), q)
  IN IF q = <<>> \/ ~s.operations.some
       THEN (IF s.operations.some THEN s.operations.v ELSE <<>>)
       ELSE SelectSeq(s.operations.v, Matches)

\* A run of the operations fetch is the order it asks for and the "cancelled"
\* flag of its closure.

\* the cleanup of the operations effect sets the flag of the run it belongs to;
\* a run that is not the last one has had its cleanup already
CancelOpsFetch(fs) == [i \in 1..Len(fs) |-> [fs[i] EXCEPT !.cancelled = TRUE]]

\* the values the dependency arrays of the effects hold in a render.  The two
\* filter effects depend on the identity of a memoised list, which changes at
\* most when the list is recomputed; their bodies only read the list and the
\* selection, so running them when the values change is the same.
EffectDeps(s) ==
  [selectedOrder |-> s.selectedOrder,
   selectedYear |-> s.selectedYear,
   selectedMonth |-> s.selectedMonth,
   filteredOrdersForMonth |-> filteredOrdersForMonth(s),
   filteredOperations |-> filteredOperations(s),
   selectedOperation |-> s.selectedOperation]

\* effect "when order selected -> fetch operations"
OperationsEffect(s, u) ==
  IF ~s.selectedOrder.some
    THEN [u EXCEPT !.operations = Null, !.selectedOperation = Null]
    ELSE [u EXCEPT !.opsLoading = TRUE,
                   !.operations = Null,
                   !.selectedOperation = Null,
                   !.fetches = Append(@, [order_number |-> s.selectedOrder.v.order_number,
                                         cancelled |-> FALSE])]

\* effect on [selectedYear], without its setSelectedMonth(null)
YearEffect_KeepsMonth(u) ==
  [u EXCEPT !.selectedOrder = Null,
            !.operations = Null,
            !.selectedOperation = Null,
            !.orderSearch = <<>>,
            !.opSearch = <<>>]

\* effect on [selectedYear]
YearEffect(u) ==
  [u EXCEPT !.selectedMonth = Null,
            !.selectedOrder = Null,
            !.operations = Null,
            !.selectedOperation = Null,
            !.orderSearch = <<>>,
            !.opSearch = <<>>]

\* effect on [selectedMonth]
MonthEffect(u) ==
  [u EXCEPT !.selectedOrder = Null,
            !.operations = Null,
            !.selectedOperation = Null,
            !.orderSearch = <<>>,
            !.opSearch = <<>>]

\* effect "if filtering hides the selected order, clear it"
OrderFilterEffect(s, u) ==
  IF /\ s.selectedOrder.some
     /\ ~\E o \in Range(filteredOrdersForMonth(s)) : o.id = s.selectedOrder.v.id
    THEN [u EXCEPT !.selectedOrder = Null,
                   !.operations = Null,
                   !.selectedOperation = Null]
    ELSE u

\* effect "if filtering hides the selected operation, clear it"
OperationFilterEffect(s, u) ==
  IF /\ s.selectedOperation.some
     /\ ~\E op \in Range(filteredOperations(s)) : op.id = s.selectedOperation.v.id
    THEN [u EXCEPT !.selectedOperation = Null]
    ELSE u

\* the effects of one commit: the cleanups of the effects whose dependencies
\* changed, then their bodies in the order of the source; every body reads the
\* state of the render (s) and its setState calls apply in order
RunEffects(s) ==
  LET d == EffectDeps(s)
      Changed(f) == ~s.deps.some \/ s.deps.v[f] # d[f]
      u0 == IF Changed("selectedOrder")
              THEN [s EXCEPT !.fetches = CancelOpsFetch(@)] ELSE s
      u1 == IF Changed("selectedOrder") THEN OperationsEffect(s, u0) ELSE u0
      u2 == IF Changed("selectedYear") THEN YearEffect(u1) ELSE u1
      u3 == IF Changed("selectedMonth") THEN MonthEffect(u2) ELSE u2
      u4 == IF Changed("filteredOrdersForMonth") \/ Changed("selectedOrder")
              THEN OrderFilterEffect(s, u3) ELSE u3
      u5 == IF Changed("filteredOperations") \/ Changed("selectedOperation")
              THEN OperationFilterEffect(s, u4) ELSE u4
  IN [u5 EXCEPT !.deps = Some(d)]

\* render, run the effects, render again while an effect has changed the state
RECURSIVE Settle(_)
Settle(s) == IF s.deps = Some(EffectDeps(s)) THEN s ELSE Settle(RunEffects(s))

\* the useState initial values; the mount effect has started GET /orders
MountAdminOrders ==
  [mounted |-> TRUE,
   orders |-> <<>>,
   loading |-> TRUE,
   error |-> NoError,
   selectedYear |-> Null,
   selectedMonth |-> Null,
   selectedOrder |-> Null,
   operations |-> Null,
   selectedOperation |-> Null,
   opsLoading |-> FALSE,
   orderSearch |-> <<>>,
   opSearch |-> <<>>,
   ordersFetch |-> "pending",
   fetches |-> <<>>,
   deps |-> Null]

IdleExceptOrders ==
  /\ metricsIdle
  /\ IdleDetail
  /\ orderForms = NoPage
  /\ adminList = NoPage

notOrdersVars ==
  <<tz, pauseCall, operation, order, tasks, rendered, memo, fetchVars, detailVars,
    orderForms, adminList>>

InitOrders ==
  /\ IdleExceptOrders
  /\ adminOrders = Settle(MountAdminOrders)

\* GET /orders answers
OrdersFetchSettles(outcome) ==
  /\ adminOrders.ordersFetch \in {"pending", "cancelled"}
  /\ adminOrders' =
       IF adminOrders.ordersFetch = "cancelled"
         THEN [adminOrders EXCEPT !.ordersFetch = "done"]
         ELSE Settle([adminOrders EXCEPT
                        !.ordersFetch = "done",
                        !.orders = IF outcome = "ok" THEN ServerOrders ELSE @,
                        !.error = IF outcome = "ok" THEN @
                                  ELSE IF outcome = "http"
                                    THEN "Failed to fetch orders: 500"
                                  ELSE "Failed to fetch",
                        !.loading = FALSE])
  /\ UNCHANGED notOrdersVars

ClickYear(y) ==
  /\ adminOrders.mounted
  /\ y \in Range(years(adminOrders))
  /\ adminOrders' =
       Settle([adminOrders EXCEPT
                 !.selectedYear = IF @ = Some(y) THEN Null ELSE Some(y)])
  /\ UNCHANGED notOrdersVars

ClickMonth(m) ==
  /\ adminOrders.mounted
  /\ m \in Range(monthsForYear(adminOrders))
  /\ adminOrders' =
       Settle([adminOrders EXCEPT
                 !.selectedMonth = IF @ = Some(m) THEN Null ELSE Some(m)])
  /\ UNCHANGED notOrdersVars

ClickOrder(o) ==
  /\ adminOrders.mounted
  /\ o \in Range(filteredOrdersForMonth(adminOrders))
  /\ Len(adminOrders.fetches) < MaxFetches
  /\ adminOrders' =
       Settle([adminOrders EXCEPT
                 !.selectedOrder = IF @.some /\ @.v.id = o.id THEN Null ELSE Some(o)])
  /\ UNCHANGED notOrdersVars

ClickOperation(op) ==
  /\ adminOrders.mounted
  /\ op \in Range(filteredOperations(adminOrders))
  /\ adminOrders' =
       Settle([adminOrders EXCEPT
                 !.selectedOperation =
                    IF @.some /\ @.v.id = op.id THEN Null ELSE Some(op)])
  /\ UNCHANGED notOrdersVars

\* typing in the orders search box, or its "Limpar" button (q = "")
SetOrderSearch(q) ==
  /\ adminOrders.mounted
  /\ adminOrders' = Settle([adminOrders EXCEPT !.orderSearch = q])
  /\ UNCHANGED notOrdersVars

\* typing in the operations search box (disabled without operations)
TypeOpSearch(q) ==
  /\ adminOrders.mounted
  /\ adminOrders.operations.some
  /\ adminOrders.operations.v # <<>>
  /\ adminOrders' = Settle([adminOrders EXCEPT !.opSearch = q])
  /\ UNCHANGED notOrdersVars

\* the "Limpar" button of the operations search
ClearOpSearch ==
  /\ adminOrders.mounted
  /\ adminOrders' = Settle([adminOrders EXCEPT !.opSearch = <<>>])
  /\ UNCHANGED notOrdersVars

\* the i-th operations fetch in flight answers
OpsFetchSettles(i, outcome) ==
  /\ i \in 1..Len(adminOrders.fetches)
  /\ LET f == adminOrders.fetches[i]
         rest == [adminOrders EXCEPT !.fetches = RemoveAt(@, i)]
     IN adminOrders' =
          IF f.cancelled THEN rest
          ELSE Settle([rest EXCEPT
                         !.operations = IF outcome = "ok"
                                          THEN Some(ServerOperations(f.order_number))
                                          ELSE Some(<<>>),
                         !.opsLoading = FALSE])
  /\ UNCHANGED notOrdersVars

\* the page is left: the cleanups of the two fetch effects run
UnmountAdminOrders ==
  /\ adminOrders.mounted
  /\ adminOrders' =
       [adminOrders EXCEPT
          !.mounted = FALSE,
          !.ordersFetch = IF @ = "pending" THEN "cancelled" ELSE @,
          !.fetches = CancelOpsFetch(@)]
  /\ UNCHANGED notOrdersVars

NextOrders ==
  \/ \E outcome \in FetchOutcomes : OrdersFetchSettles(outcome)
  \/ \E y \in {"2024", "2025", "Unknown"} : ClickYear(y)
  \/ \E m \in {"01", "03", "Unknown"} : ClickMonth(m)
  \/ \E o \in Range(ServerOrders) : ClickOrder(o)
  \/ \E n \in {10, 21, 30, 41} : \E op \in Range(ServerOperations(n)) :
       ClickOperation(op)
  \/ \E q \in { <<>>, <<" ">>, <<"1", "0">>, <<"7">> } : SetOrderSearch(q)
  \/ \E q \in { <<>>, <<"O", "P", "1">>, <<"2", "0", " ">> } : TypeOpSearch(q)
  \/ ClearOpSearch
  \/ \E i \in 1..MaxFetches, outcome \in FetchOutcomes : OpsFetchSettles(i, outcome)
  \/ UnmountAdminOrders

SpecOrders == InitOrders /\ [][NextOrders]_vars

----------------------------------------------------------------------------
(* The order forms: CreateNewOrder (in Home) and EditOrderFieldModal (in   *)
(* OrderDetail).  The value of an input is the string the browser hands to *)
(* onChange: "" or a decimal numeral for type="number", "" or yyyy-mm-dd   *)
(* for type="date".                                                        *)

\* Number(str): the empty or blank string is 0, a decimal numeral its value,
\* anything else NaN
NumberOf(str) ==
  LET t == trim(str)
      neg == t # <<>> /\ Head(t) = "-"
      body == IF neg THEN Tail(t) ELSE t
      Digits == <<"0", "1", "2", "3", "4", "5", "6", "7", "8", "9">>
      DigitOf(c) == CHOOSE k \in 0..9 : Digits[k + 1] = c
      dots == { i \in 1..Len(body) : body[i] = "." }
      dot == IF dots = {} THEN Len(body) + 1 ELSE CHOOSE i \in dots : TRUE
      digits == SubSeq(body, 1, dot - 1) \o SubSeq(body, dot + 1, Len(body))
      scale == Len(body) - dot
      Value[i \in 0..Len(digits)] ==
        IF i = 0 THEN 0 ELSE 10 * Value[i - 1] + DigitOf(digits[i])
      Pow10[i \in 0..Len(body)] == IF i = 0 THEN 1 ELSE 10 * Pow10[i - 1]
  IN IF t = <<>> THEN Zero
     ELSE IF \/ Cardinality(dots) > 1
             \/ digits = <<>>
             \/ \E i \in 1..Len(digits) : digits[i] \notin Range(Digits)
       THEN NaN
     ELSE Norm((IF neg THEN 0 - 1 ELSE 1) * Value[Len(digits)],
               Pow10[IF scale < 0 THEN 0 ELSE scale])

\* a > b of two strings of digits and dashes (by UTF-16 code unit)
RECURSIVE StringGreater(_, _)
StringGreater(a, b) ==
  LET Chars == <<"-", "0", "1", "2", "3", "4", "5", "6", "7", "8", "9">>
      Code(c) == CHOOSE k \in 1..Len(Chars) : Chars[k] = c
  IN IF a = <<>> THEN FALSE
     ELSE IF b = <<>> THEN TRUE
     ELSE IF Head(a) # Head(b) THEN Code(Head(a)) > Code(Head(b))
     ELSE StringGreater(Tail(a), Tail(b))

\* the message of the first check that fails, NoError (null) when none does
validateOrderCreate(data) ==
  LET Invalid(str) == \/ trim(str) = <<>>
                      \/ IsNaN(NumberOf(str))
                      \/ NumberOf(str)[1] <= 0
  IN IF Invalid(data.order_number) THEN "Número da ordem inválido."
     ELSE IF Invalid(data.material_number) THEN "Número do material inválido."
     ELSE IF Invalid(data.num_pieces) THEN "Número de peças inválido."
     ELSE IF trim(data.start_date) = <<>> THEN "Data de início é obrigatória."
     ELSE IF trim(data.end_date) = <<>> THEN "Data de fim é obrigatória."
     ELSE IF StringGreater(data.start_date, data.end_date)
       THEN "Data de início não pode ser maior que a data de fim."
     ELSE NoError

EmptyForm ==
  [order_number |-> <<>>, material_number |-> <<>>, start_date |-> <<>>,
   end_date |-> <<>>, num_pieces |-> <<>>]

\* what the user can enter in each field of CreateNewOrder
FormInputs(field) ==
  CASE field = "order_number" -> { <<>>, <<"7">> }
    [] field = "material_number" -> { <<"-", "2">>, <<"7">> }
    [] field = "num_pieces" -> { <<>>, <<"0">>, <<"-", "2">>, <<"3">>, <<"2", ".", "5">> }
    [] OTHER -> { <<>>,
                  <<"2", "0", "2", "4", "-", "0", "3", "-", "0", "5">>,
                  <<"2", "0", "2", "4", "-", "0", "3", "-", "0", "9">> }

\* Home with the modal of CreateNewOrder closed; GET /orders/recent has
\* answered with no orders
MountHome ==
  [mounted |-> TRUE,
   page |-> "home",
   orders |-> <<>>,
   show |-> FALSE,
   formData |-> EmptyForm,
   loading |-> FALSE,
   error |-> NoError,
   request |-> Null,
   lastClick |-> "none"]

\* the order OrderDetail has loaded
ServerOrder ==
  [order_number |-> FromInt(10), material_number |-> FromInt(7),
   start_date |-> <<"2", "0", "2", "4", "-", "0", "3", "-", "0", "5">>,
   end_date |-> <<"2", "0", "2", "4", "-", "0", "3", "-", "0", "9">>,
   num_pieces |-> FromInt(5)]

\* OrderDetail with the modal of EditOrderFieldModal closed
MountOrderDetail ==
  [mounted |-> TRUE,
   page |-> "orderDetail",
   order |-> ServerOrder,
   show |-> FALSE,
   fieldKey |-> "",
   value |-> <<>>,
   loading |-> FALSE,
   error |-> NoError,
   request |-> Null,
   lastClick |-> "none"]

IdleExceptForms ==
  /\ metricsIdle
  /\ IdleDetail
  /\ adminOrders = NoPage
  /\ adminList = NoPage

notFormsVars ==
  <<tz, pauseCall, operation, order, tasks, rendered, memo, fetchVars, detailVars,
    adminOrders, adminList>>

InitForms ==
  /\ IdleExceptForms
  /\ orderForms \in {MountHome, MountOrderDetail}

OnHome == orderForms.mounted /\ orderForms.page = "home"

\* "+ Nova Ordem": the modal opens and its effect on [show] resets the form
OpenCreateOrder ==
  /\ OnHome
  /\ ~orderForms.show
  /\ Len(orderForms.orders) < MaxOrders
  /\ orderForms' = [orderForms EXCEPT !.show = TRUE,
                                      !.formData = EmptyForm,
                                      !.error = NoError,
                                      !.loading = FALSE,
                                      !.lastClick = "none"]
  /\ UNCHANGED notFormsVars

\* "Cancelar" of CreateNewOrder (disabled while loading)
CloseCreateOrder ==
  /\ OnHome
  /\ orderForms.show
  /\ ~orderForms.loading
  /\ orderForms' = [orderForms EXCEPT !.show = FALSE, !.lastClick = "none"]
  /\ UNCHANGED notFormsVars

\* handleChange of CreateNewOrder (the inputs are disabled while loading)
handleChange(field, value) ==
  /\ OnHome
  /\ orderForms.show
  /\ ~orderForms.loading
  /\ orderForms' = [orderForms EXCEPT !.formData[field] = value,
                                      !.error = NoError,
                                      !.lastClick = "none"]
  /\ UNCHANGED notFormsVars

\* a click on "Criar": nothing when the button is disabled, else handleCreate
\* up to its await
handleCreate ==
  /\ OnHome
  /\ orderForms.show
  /\ LET formData == orderForms.formData
         validationError == validateOrderCreate(formData)
         isFormValid == validateOrderCreate(formData) = NoError
         payload == [order_number |-> NumberOf(formData.order_number),
                     material_number |-> NumberOf(formData.material_number),
                     start_date |-> formData.start_date,
                     end_date |-> formData.end_date,
                     num_pieces |-> NumberOf(formData.num_pieces)]
     IN orderForms' =
          IF orderForms.loading \/ ~isFormValid
            THEN [orderForms EXCEPT !.lastClick = "disabled"]
          ELSE IF validationError # NoError
            THEN [orderForms EXCEPT !.error = validationError,
                                    !.lastClick = "rejected"]
          ELSE [orderForms EXCEPT !.loading = TRUE,
                                  !.error = NoError,
                                  !.request = Some(payload),
                                  !.lastClick = "sent"]
  /\ UNCHANGED notFormsVars

\* POST /orders answers: handleCreate after its await, with Home's
\* handleCreateSuccess and onClose
CreateSettles(outcome) ==
  /\ OnHome
  /\ orderForms.request.some
  /\ orderForms' =
       IF outcome = "ok"
         THEN [orderForms EXCEPT !.orders = Append(@, orderForms.request.v),
                                 !.show = FALSE,
                                 !.formData = EmptyForm,
                                 !.loading = FALSE,
                                 !.request = Null,
                                 !.lastClick = "none"]
         ELSE [orderForms EXCEPT !.error = PatchErrorMessage(outcome),
                                 !.loading = FALSE,
                                 !.request = Null,
                                 !.lastClick = "none"]
  /\ UNCHANGED notFormsVars

OnOrderDetail == orderForms.mounted /\ orderForms.page = "orderDetail"

\* String(initialValue) of a field of the order (the numbers of the model
\* are whole or end in .5)
InitialValue(fieldKey) ==
  LET v == orderForms.order[fieldKey]
      whole == String(Abs(v[1]) \div v[2])
  IN IF fieldKey \in {"start_date", "end_date"} THEN v
     ELSE (IF v[1] < 0 THEN <<"-">> ELSE <<>>)
            \o whole \o (IF v[2] = 1 THEN <<>> ELSE <<".", "5">>)

\* a click on a summary card: openEditModal, then the modal's effect on
\* [show, initialValue]
openEditModal(key) ==
  /\ OnOrderDetail
  /\ ~orderForms.show
  /\ orderForms' = [orderForms EXCEPT !.show = TRUE,
                                      !.fieldKey = key,
                                      !.value = InitialValue(key),
                                      !.error = NoError,
                                      !.loading = FALSE,
                                      !.lastClick = "none"]
  /\ UNCHANGED notFormsVars

\* "Cancelar" of EditOrderFieldModal (disabled while loading)
CloseEditOrder ==
  /\ OnOrderDetail
  /\ orderForms.show
  /\ ~orderForms.loading
  /\ orderForms' = [orderForms EXCEPT !.show = FALSE, !.lastClick = "none"]
  /\ UNCHANGED notFormsVars

\* handleInputChange of EditOrderFieldModal
handleInputChange(value) ==
  /\ OnOrderDetail
  /\ orderForms.show
  /\ ~orderForms.loading
  /\ value \in FormInputs(orderForms.fieldKey)
  /\ orderForms' = [orderForms EXCEPT !.value = value,
                                      !.error = NoError,
                                      !.lastClick = "none"]
  /\ UNCHANGED notFormsVars

\* the value convertPayload returns for the field, or the message of the
\* error it throws (a date input holds "" or yyyy-mm-dd)
convertPayload(fieldKey, value) ==
  IF value = <<>> \/ trim(value) = <<>>
    THEN [error |-> "não pode ser vazio."]
  ELSE IF fieldKey \in {"order_number", "material_number", "num_pieces"}
    THEN IF IsNaN(NumberOf(value))
           THEN [error |-> "Valor numérico inválido."]
           ELSE [error |-> NoError, value |-> NumberOf(value)]
  ELSE [error |-> NoError, value |-> value]

\* a click on "Salvar": handleSave up to its await (confirmed is the answer to
\* window.confirm)
handleSave(confirmed) ==
  /\ OnOrderDetail
  /\ orderForms.show
  /\ ~orderForms.loading
  /\ LET payload == convertPayload(orderForms.fieldKey, orderForms.value)
     IN orderForms' =
          IF payload.error # NoError
            THEN [orderForms EXCEPT !.error = payload.error,
                                    !.lastClick = "rejected"]
          ELSE IF ~confirmed
            THEN [orderForms EXCEPT !.error = NoError, !.lastClick = "declined"]
          ELSE [orderForms EXCEPT
                  !.error = NoError,
                  !.loading = TRUE,
                  !.request = Some([f \in {orderForms.fieldKey} |-> payload.value]),
                  !.lastClick = "sent"]
  /\ UNCHANGED notFormsVars

\* PATCH /orders/{n} answers: handleSave after its await, with OrderDetail's
\* onSavedOrder and onHide
SaveOrderSettles(outcome) ==
  /\ OnOrderDetail
  /\ orderForms.request.some
  /\ orderForms' =
       IF outcome = "ok"
         THEN [orderForms EXCEPT
                 !.order = [f \in DOMAIN @ |->
                              IF f \in DOMAIN orderForms.request.v
                                THEN orderForms.request.v[f] ELSE @[f]],
                 !.show = FALSE,
                 !.loading = FALSE,
                 !.request = Null,
                 !.lastClick = "none"]
         ELSE [orderForms EXCEPT !.error = PatchErrorMessage(outcome),
                                 !.loading = FALSE,
                                 !.request = Null,
                                 !.lastClick = "none"]
  /\ UNCHANGED notFormsVars

NextForms ==
  \/ OpenCreateOrder
  \/ CloseCreateOrder
  \/ \E field \in DOMAIN EmptyForm : \E value \in FormInputs(field) :
       handleChange(field, value)
  \/ handleCreate
  \/ \E outcome \in PatchOutcomes : CreateSettles(outcome)
  \/ \E key \in {"material_number", "start_date", "num_pieces"} : openEditModal(key)
  \/ CloseEditOrder
  \/ \E value \in UNION { FormInputs(field) : field \in DOMAIN EmptyForm } :
       handleInputChange(value)
  \/ \E confirmed \in BOOLEAN : handleSave(confirmed)
  \/ \E outcome \in PatchOutcomes : SaveOrderSettles(outcome)

SpecForms == InitForms /\ [][NextForms]_vars

----------------------------------------------------------------------------
(* AdminMachines and AdminUsers: a list fetched from the REST API, a       *)
(* "hide inactive" switch, and one row at a time in edit mode.  The two    *)
(* pages have the same code up to the fields of a row; adminList.kind      *)
(* tells them apart.  The search box only hides rows, and with them their  *)
(* buttons, so the model keeps it empty; the creation modal is not         *)
(* modelled.  adminList.server is the table of the backend: it answers a   *)
(* request at the moment the response is delivered.  A description is Null *)
(* or Some(text); a bitzer_id is a record tagged "null", "undefined",      *)
(* "number" (a JS number) or "string" (the characters typed in the input). *)
(* adminList.issued, .shown and .last record the number of list requests   *)
(* sent, the number of the request whose response is displayed, and the    *)
(* kind of the last step.                                                  *)

ListFields(kind) ==
  IF kind = "machines"
    THEN {"machine_location", "machine_id", "description", "machine_type", "active"}
    ELSE {"name", "bitzer_id", "active", "is_admin"}

ServerList(kind) ==
  IF kind = "machines"
    THEN << [id |-> 1, machine_location |-> "Hall 1", machine_id |-> "M1",
             description |-> Null, machine_type |-> "CNC", active |-> TRUE],
            [id |-> 2, machine_location |-> "Hall 2", machine_id |-> "M2",
             description |-> Some("saw"), machine_type |-> "CONVENTIONAL",
             active |-> FALSE] >>
    ELSE << [id |-> 1, name |-> "Ana", bitzer_id |-> [t |-> "number", v |-> FromInt(12)],
             active |-> TRUE, is_admin |-> TRUE],
            [id |-> 2, name |-> "Rui", bitzer_id |-> [t |-> "null"],
             active |-> FALSE, is_admin |-> FALSE] >>

\* what the user can put into the inputs of the row in edit mode
EditInputs(kind) ==
  IF kind = "machines"
    THEN { <<"description", Some("")>>, <<"machine_type", "CNC">>,
           <<"active", TRUE>>, <<"active", FALSE>> }
    ELSE { <<"bitzer_id", [t |-> "string", v |-> <<>>]>>,
           <<"bitzer_id", [t |-> "string", v |-> <<"1", "2">>]>>,
           <<"bitzer_id", [t |-> "string", v |-> <<"x">>]>>,
           <<"active", TRUE>>, <<"active", FALSE>> }

\* GET /machines or /users, with ?active=true when the switch was on
ListResponse(server, active) ==
  LET IsActive(r) == r.active
  IN IF active THEN SelectSeq(server, IsActive) ELSE server

\* fetchMachines / fetchUsers up to its await, on the state s of a render
fetchMachines(s) ==
  [s EXCEPT !.loading = TRUE,
            !.error = Null,
            !.fetches = Append(@, [n |-> s.issued + 1, active |-> s.hideInactive]),
            !.issued = @ + 1]

MountAdminList(kind) ==
  fetchMachines(
    [mounted |-> TRUE, kind |-> kind, server |-> ServerList(kind),
     rows |-> <<>>, loading |-> FALSE, error |-> Null, hideInactive |-> FALSE,
     editingId |-> Null, editValues |-> [f \in {} |-> Null], savingId |-> Null,
     fetches |-> <<>>, issued |-> 0, shown |-> Null,
     saves |-> <<>>, sent |-> 0, last |-> "other"])

IdleExceptAdminList ==
  /\ metricsIdle
  /\ IdleDetail
  /\ adminOrders = NoPage
  /\ orderForms = NoPage

notAdminListVars ==
  <<tz, pauseCall, operation, order, tasks, rendered, memo, fetchVars, detailVars,
    adminOrders, orderForms>>

InitAdminList ==
  /\ IdleExceptAdminList
  /\ adminList \in {MountAdminList("machines"), MountAdminList("users")}

\* the switch "Ocultar inativos": setHideInactive, then the effect [hideInactive]
HideInactiveSwitch ==
  /\ adminList.mounted
  /\ adminList.issued < MaxListFetches
  /\ adminList' = [fetchMachines([adminList EXCEPT !.hideInactive = ~@])
                     EXCEPT !.last = "other"]
  /\ UNCHANGED notAdminListVars

\* the button "Atualizar", disabled while loading
ClickAtualizar ==
  /\ adminList.mounted
  /\ ~adminList.loading
  /\ adminList.issued < MaxListFetches
  /\ adminList' = [fetchMachines(adminList) EXCEPT !.last = "other"]
  /\ UNCHANGED notAdminListVars

\* fetchMachines / fetchUsers after its await
ListFetchSettles(i, outcome) ==
  /\ adminList.mounted
  /\ i \in 1..Len(adminList.fetches)
  /\ LET f == adminList.fetches[i]
         s == [adminList EXCEPT !.fetches = RemoveAt(@, i), !.last = "other"]
     IN adminList' =
          IF outcome = "ok"
            THEN [s EXCEPT !.rows = ListResponse(adminList.server, f.active),
                           !.shown = Some(f.n),
                           !.loading = FALSE]
            ELSE [s EXCEPT !.error = Some("Failed to fetch: 500"),
                           !.loading = FALSE]
  /\ UNCHANGED notAdminListVars

\* the button "Editar" of the row with this id
handleEdit(id) ==
  /\ adminList.mounted
  /\ adminList.editingId # Some(id)
  /\ \E i \in 1..Len(adminList.rows) :
       /\ adminList.rows[i].id = id
       /\ LET m == adminList.rows[i]
          IN adminList' =
               [adminList EXCEPT
                  !.editingId = Some(m.id),
                  !.editValues =
                    IF adminList.kind = "machines"
                      THEN [machine_location |-> m.machine_location,
                            machine_id |-> m.machine_id,
                            description |-> IF m.description = Null THEN Some("")
                                            ELSE m.description,
                            machine_type |-> m.machine_type,
                            active |-> m.active]
                      ELSE [name |-> m.name,
                            bitzer_id |-> IF m.bitzer_id.t = "null"
                                            THEN [t |-> "undefined"]
                                            ELSE m.bitzer_id,
                            active |-> m.active,
                            is_admin |-> m.is_admin],
                  !.last = "other"]
  /\ UNCHANGED notAdminListVars

\* the button "Cancelar" of the row in edit mode
handleCancelEdit ==
  /\ adminList.mounted
  /\ adminList.editingId # Null
  /\ \E i \in 1..Len(adminList.rows) : adminList.rows[i].id = adminList.editingId.v
  /\ adminList' = [adminList EXCEPT !.editingId = Null,
                                    !.editValues = [f \in {} |-> Null],
                                    !.last = "other"]
  /\ UNCHANGED notAdminListVars

\* an input of the row in edit mode
handleChangeEdit(field, value) ==
  /\ adminList.mounted
  /\ adminList.editingId # Null
  /\ \E i \in 1..Len(adminList.rows) : adminList.rows[i].id = adminList.editingId.v
  /\ <<field, value>> \in EditInputs(adminList.kind)
  /\ adminList' =
       [adminList EXCEPT
          !.editValues = [g \in DOMAIN @ \cup {field} |->
                            IF g = field THEN value ELSE @[g]],
          !.last = "other"]
  /\ UNCHANGED notAdminListVars

\* x !== y of two bitzer_id values
StrictlyDiffers(x, y) == x # y \/ (x.t = "number" /\ IsNaN(x.v))

ChangedFields_AllFields(kind, editValues, original) ==
  LET Put(p, f, v) == [g \in DOMAIN p \cup {f} |-> IF g = f THEN v ELSE p[g]]
      Changed(p, f) ==
        IF f \in DOMAIN editValues
          THEN Put(p, f, editValues[f]) ELSE p
      p0 == [g \in {} |-> Null]
  IN IF kind = "machines"
       THEN Changed(Changed(Changed(Changed(Changed(p0,
              "machine_location"), "machine_id"), "description"), "machine_type"),
              "active")
       ELSE LET p1 == Changed(p0, "name")
                val == editValues.bitzer_id
                num == IF val = [t |-> "string", v |-> <<>>]
                          \/ val.t \in {"null", "undefined"}
                         THEN [t |-> "null"]
                       ELSE IF val.t = "string"
                         THEN [t |-> "number", v |-> NumberOf(val.v)]
                       ELSE val
                p2 == IF "bitzer_id" \in DOMAIN editValues
                           /\ StrictlyDiffers(num, original.bitzer_id)
                        THEN Put(p1, "bitzer_id", num) ELSE p1
            IN Changed(Changed(p2, "active"), "is_admin")

\* the payload of handleSave: the fields of editValues that are not those
\* of the row
ChangedFields(kind, editValues, original) ==
  LET Put(p, f, v) == [g \in DOMAIN p \cup {f} |-> IF g = f THEN v ELSE p[g]]
      Changed(p, f) ==
        IF f \in DOMAIN editValues /\ editValues[f] # original[f]
          THEN Put(p, f, editValues[f]) ELSE p
      p0 == [g \in {} |-> Null]
  IN IF kind = "machines"
       THEN Changed(Changed(Changed(Changed(Changed(p0,
              "machine_location"), "machine_id"), "description"), "machine_type"),
              "active")
       ELSE LET p1 == Changed(p0, "name")
                val == editValues.bitzer_id
                num == IF val = [t |-> "string", v |-> <<>>]
                          \/ val.t \in {"null", "undefined"}
                         THEN [t |-> "null"]
                       ELSE IF val.t = "string"
                         THEN [t |-> "number", v |-> NumberOf(val.v)]
                       ELSE val
                p2 == IF "bitzer_id" \in DOMAIN editValues
                           /\ StrictlyDiffers(num, original.bitzer_id)
                        THEN Put(p1, "bitzer_id", num) ELSE p1
            IN Changed(Changed(p2, "active"), "is_admin")

\* JSON.stringify(payload): NaN is written as null
JSONStringify(payload) ==
  [f \in DOMAIN payload |->
     IF f = "bitzer_id" /\ payload[f].t = "number" /\ IsNaN(payload[f].v)
       THEN [t |-> "null"] ELSE payload[f]]

\* the button "Guardar" of the row in edit mode, disabled while that row is
\* being saved: handleSave up to its await.  The row is one of the rendered
\* rows, so machines.find / users.find finds it.
handleSaveRow(id) ==
  /\ adminList.mounted
  /\ adminList.editingId = Some(id)
  /\ adminList.savingId # Some(id)
  /\ \E i \in 1..Len(adminList.rows) :
       /\ adminList.rows[i].id = id
       /\ LET original == adminList.rows[i]
              payload == ChangedFields(adminList.kind, adminList.editValues, original)
          IN IF DOMAIN payload = {}
               THEN adminList' = [adminList EXCEPT !.error = Null,
                                                   !.editingId = Null,
                                                   !.savingId = Null,
                                                   !.last = "handleSave"]
               ELSE /\ adminList.sent < MaxSaves
                    /\ adminList' =
                         [adminList EXCEPT
                            !.savingId = Some(id),
                            !.error = Null,
                            !.saves = Append(@, [id |-> id,
                                                 body |-> JSONStringify(payload)]),
                            !.sent = @ + 1,
                            !.last = "handleSave"]
  /\ UNCHANGED notAdminListVars

\* handleSave after its await; the backend applies the body to its row and
\* answers with the row
RowSaveSettles(i, outcome) ==
  /\ adminList.mounted
  /\ i \in 1..Len(adminList.saves)
  /\ LET save == adminList.saves[i]
         Updated(r) == [f \in DOMAIN r |->
                          IF f \in DOMAIN save.body THEN save.body[f] ELSE r[f]]
         Patch(list) == [k \in 1..Len(list) |->
                           IF list[k].id = save.id THEN Updated(list[k]) ELSE list[k]]
         updated == Updated(CHOOSE r \in Range(adminList.server) : r.id = save.id)
         s == [adminList EXCEPT !.saves = RemoveAt(@, i), !.savingId = Null]
     IN adminList' =
          IF outcome = "ok"
            THEN [s EXCEPT !.server = Patch(@),
                           !.rows = [k \in 1..Len(@) |->
                                       IF @[k].id = save.id THEN updated ELSE @[k]],
                           !.editingId = Null,
                           !.editValues = [f \in {} |-> Null],
                           !.last = "saveOk"]
            ELSE [s EXCEPT !.error = Some("Failed to save: 422"),
                           !.last = "saveFailed"]
  /\ UNCHANGED notAdminListVars

NextAdminList ==
  \/ HideInactiveSwitch
  \/ ClickAtualizar
  \/ \E i \in 1..MaxListFetches : \E outcome \in {"ok", "http"} :
       ListFetchSettles(i, outcome)
  \/ \E id \in 1..2 : handleEdit(id)
  \/ handleCancelEdit
  \/ \E kind \in {"machines", "users"} : \E input \in EditInputs(kind) :
       handleChangeEdit(input[1], input[2])
  \/ \E id \in 1..2 : handleSaveRow(id)
  \/ \E i \in 1..MaxSaves : \E outcome \in {"ok", "rejected"} :
       RowSaveSettles(i, outcome)

SpecAdminList == InitAdminList /\ [][NextAdminList]_vars

----------------------------------------------------------------------------
(* Vocabulary of the properties *)

\* the machine_type of the machine record of an operation, letter case ignored
MachineRecordType(op) ==
  IF op.some /\ op.machine.some THEN TrimUpper(op.machine.machine_type) ELSE ""

HasBothTimestamps(t) == t.start_at.kind = "iso" /\ t.end_at.kind = "iso"

\* the positions of the tasks with both timestamps
ValidIdx(tk) == { i \in 1..Len(tk.list) : HasBothTimestamps(tk.list[i]) }

RawDuration(t) ==
  IF t.end_at.t > t.start_at.t THEN t.end_at.t - t.start_at.t ELSE 0

RawOverlap(z, t) == sumPauseOverlapBetween(z, t.start_at.t, t.end_at.t)

\* minute m of the local day lies in one of the three daily pause windows
InPauseWindow(m) ==
  \/ 10 * 60 <= m /\ m < 10 * 60 + 10
  \/ 12 * 60 + 30 <= m /\ m < 13 * 60 + 20
  \/ 15 * 60 + 30 <= m /\ m < 15 * 60 + 40

\* the minutes of [start, end) that lie in a pause window of their local day
PauseMinutesIn(z, start, end) ==
  { t \in start..(end - 1) : InPauseWindow(LocalTime(z, t) % MinutesPerDay) }

\* n / k in one step
Ratio(n, k) ==
  IF k = 0 THEN (IF n > 0 THEN PosInf ELSE IF n < 0 THEN NegInf ELSE NaN)
  ELSE Norm(n * Sign(k), Abs(k))

\* the sum of f over the index set S
RECURSIVE SumOver(_, _)
SumOver(f, S) ==
  IF S = {} THEN Zero
  ELSE LET i == CHOOSE j \in S : TRUE
       IN  RAdd(f[i], SumOver(f, S \ {i}))

\* a <= b as numbers (false when either is not-a-number)
RLeq(a, b) ==
  IF IsNaN(a) \/ IsNaN(b) THEN FALSE
  ELSE IF a = NegInf \/ b = PosInf THEN TRUE
  ELSE IF a = PosInf \/ b = NegInf THEN FALSE
  ELSE a[1] * b[2] <= b[1] * a[2]

\* a is less than b, or a and b are the same value
RLessEq(a, b) == a = b \/ RLeq(a, b)

IsPositive(a) == IsFinite(a) /\ a[1] > 0

\* a count of 0, null or absent replaced by 1
CountAsOne(c) == IF c.some /\ c.v >= 1 THEN c ELSE Num(1)

NormalisedCounts(tk) ==
  [tk EXCEPT !.list =
     [i \in 1..Len(tk.list) |->
        [tk.list[i] EXCEPT !.num_benches = CountAsOne(@),
                           !.num_machines = CountAsOne(@)]]]

----------------------------------------------------------------------------
(* Properties of the metrics (under SpecMetrics) *)

\* C1: for an operation whose machine record has machine_type CONVENTIONAL
\* (any letter case) every task with both timestamps has its apportioned
\* pause overlap subtracted from its raw duration; for CNC, any other value
\* or no machine nothing is subtracted per task.
C1_SubtractionFollowsMachineRecord ==
  rendered =>
    \A i \in ValidIdx(tasks) :
      LET t == tasks.list[i]
          apportioned == Ratio(RawOverlap(tz, t),
                               Max1(OrOne(t.num_benches)) * Max1(OrOne(t.num_machines)))
      IN  /\ perTask[i].counted
          /\ perTask[i].adjustedDuration =
               IF MachineRecordType(operation) = "CONVENTIONAL"
               THEN RMax0(RSub(FromInt(RawDuration(t)), apportioned))
               ELSE FromInt(RawDuration(t))

\* C2: every division by num_benches or num_machines uses max(1, count): a
\* stored count of 0, null or absent behaves exactly like 1, and no metric is
\* infinite or not-a-number.
C2_CountsClampedToOne ==
  rendered =>
    /\ metrics = ComputeMetrics(tz, operation, order, NormalisedCounts(tasks))
    /\ IsFinite(metrics.pauseMinutes)
    /\ IsFinite(metrics.tMdoMinutes)
    /\ IsFinite(metrics.tMaqMinutes)
    /\ IsFinite(metrics.perPieceMdo.v)
    /\ IsFinite(metrics.perPieceMaq.v)

\* C3: the operator-minutes total is the sum over the tasks with both
\* timestamps of adjustedDuration / max(1,num_machines) / max(1,num_benches),
\* minus the total pause-minutes, once, whatever the machine type.
C3_OperatorMinutesTotal ==
  rendered =>
    metrics.tMdoMinutes =
      RSub(SumOver([i \in ValidIdx(tasks) |->
                      Ratio(perTask[i].adjustedDuration[1],
                            perTask[i].adjustedDuration[2]
                              * Max1(OrOne(tasks.list[i].num_machines))
                              * Max1(OrOne(tasks.list[i].num_benches)))],
                   ValidIdx(tasks)),
           metrics.pauseMinutes)

\* C3 witness: a CNC operation whose tasks overlap a pause, so the aggregate
\* subtraction alone lowers the total
C3_Witness ==
  /\ rendered
  /\ MachineRecordType(operation) = "CNC"
  /\ ~subtractPausesForConventional(operation)
  /\ IsPositive(metrics.pauseMinutes)
  /\ IsFinite(metrics.tMdoMinutes)
  /\ metrics.tMdoMinutes # metrics.tMaqMinutes

\* C4: with the task list and the order unchanged, replacing a CNC machine by
\* a CONVENTIONAL one never raises the operator-minutes total, and leaves it
\* equal when no task overlaps a pause window.
C4_ConventionalNotAboveCnc ==
  [][ ( /\ rendered /\ rendered'
        /\ MachineRecordType(operation) = "CNC"
        /\ MachineRecordType(operation') = "CONVENTIONAL" )
      => /\ RLessEq(memo'.metrics.tMdoMinutes, metrics.tMdoMinutes)
         /\ (\A i \in ValidIdx(tasks) : RawOverlap(tz, tasks.list[i]) = 0)
              => memo'.metrics.tMdoMinutes = metrics.tMdoMinutes ]_vars

\* C4 witness: a CONVENTIONAL operation whose total is strictly below the
\* total the same tasks have on a CNC machine
C4_Witness ==
  /\ rendered
  /\ MachineRecordType(operation) = "CONVENTIONAL"
  /\ IsFinite(metrics.tMdoMinutes)
  /\ LET cnc == ComputeMetrics(tz, Operation(1, "", Machine("CNC")), order, tasks)
     IN  /\ RLeq(metrics.tMdoMinutes, cnc.tMdoMinutes)
         /\ metrics.tMdoMinutes # cnc.tMdoMinutes

\* C7: the pause-minutes are the sum over the tasks with both timestamps of
\* the raw pause overlap divided by the bench count and by the machine count
\* (an absent count being 1); the sum does not mention the operation, so the
\* pause-minutes are the same for every machine type.
C7_PauseMinutesApportioned ==
  rendered =>
    metrics.pauseMinutes =
      SumOver([i \in ValidIdx(tasks) |->
                 Ratio(RawOverlap(tz, tasks.list[i]),
                       OrOne(tasks.list[i].num_benches)
                         * OrOne(tasks.list[i].num_machines))],
              ValidIdx(tasks))

\* C7 witness: a task shared by two benches and two machines that overlaps
\* the lunch pause by 50 minutes reports 12.5 pause-minutes
C7_Witness ==
  /\ rendered
  /\ tasks.some /\ Len(tasks.list) = 1
  /\ RawOverlap(tz, tasks.list[1]) = 50
  /\ metrics.pauseMinutes = <<25, 2>>

\* C8: the machine-minutes total is the sum over the tasks with both
\* timestamps of adjustedDuration / max(1,num_benches), adjustedDuration being
\* max(0, rawDuration - pauseOverlap) when the computation subtracts pauses
\* (machine type CONVENTIONAL) and rawDuration otherwise; no aggregate pause
\* subtraction is applied to it.
C8_MachineMinutesTotal ==
  rendered =>
    metrics.tMaqMinutes =
      SumOver([i \in ValidIdx(tasks) |->
                 LET t == tasks.list[i]
                     pauseOverlap == Ratio(RawOverlap(tz, t),
                                           OrOne(t.num_benches) * OrOne(t.num_machines))
                     adjusted == IF getOperationMachineType(operation) = "CONVENTIONAL"
                                 THEN RMax0(RSub(FromInt(RawDuration(t)), pauseOverlap))
                                 ELSE FromInt(RawDuration(t))
                 IN  Ratio(adjusted[1], adjusted[2] * Max1(OrOne(t.num_benches)))],
              ValidIdx(tasks))

\* C8 witness: pauses are subtracted per task, two machines share a task, and
\* the machine-minutes differ from the operator-minutes
C8_Witness ==
  /\ rendered
  /\ getOperationMachineType(operation) = "CONVENTIONAL"
  /\ IsPositive(metrics.pauseMinutes)
  /\ IsPositive(metrics.tMaqMinutes)
  /\ \E i \in ValidIdx(tasks) : OrOne(tasks.list[i].num_machines) = 2
  /\ metrics.tMaqMinutes # metrics.tMdoMinutes

\* C9 as stated: per-piece operator- and machine-minutes are the totals
\* divided by order.num_pieces whenever an order with num_pieces > 0 is given,
\* and null when the order is absent or num_pieces is missing, zero or
\* negative.
C9_PerPieceWheneverOrder ==
  rendered =>
    IF order.some /\ order.num_pieces.some /\ order.num_pieces.v > 0
    THEN /\ metrics.perPieceMdo = Number(Ratio(metrics.tMdoMinutes[1],
                                          metrics.tMdoMinutes[2] * order.num_pieces.v))
         /\ metrics.perPieceMaq = Number(Ratio(metrics.tMaqMinutes[1],
                                          metrics.tMaqMinutes[2] * order.num_pieces.v))
    ELSE /\ metrics.perPieceMdo = NoNumber
         /\ metrics.perPieceMaq = NoNumber

\* C9 amended: the same for a non-empty task list; for an empty or not yet
\* loaded task list both per-piece metrics are null whatever the order.
C9_PerPieceForNonEmptyList ==
  rendered =>
    IF /\ tasks.some /\ Len(tasks.list) > 0
       /\ order.some /\ order.num_pieces.some /\ order.num_pieces.v > 0
    THEN /\ metrics.perPieceMdo = Number(Ratio(metrics.tMdoMinutes[1],
                                          metrics.tMdoMinutes[2] * order.num_pieces.v))
         /\ metrics.perPieceMaq = Number(Ratio(metrics.tMaqMinutes[1],
                                          metrics.tMaqMinutes[2] * order.num_pieces.v))
    ELSE /\ metrics.perPieceMdo = NoNumber
         /\ metrics.perPieceMaq = NoNumber

\* C9 witness: 60 operator-minutes for an order of 10 pieces are 6 per piece
C9_Witness ==
  /\ rendered
  /\ order = Order(Num(10))
  /\ metrics.tMdoMinutes = <<60, 1>>
  /\ metrics.perPieceMdo = Number(<<6, 1>>)
  /\ metrics.perPieceMaq = Number(<<6, 1>>)

\* C10: totalTasks is the length of the input list, and a task whose start_at
\* or end_at is missing or unparseable changes no other metric: the metrics
\* are those of the list without such tasks.
C10_IncompleteTasksOnlyCounted ==
  rendered =>
    LET kept == [tasks EXCEPT !.list = SelectSeq(@, HasBothTimestamps)]
        m == ComputeMetrics(tz, operation, order, kept)
    IN  /\ metrics.totalTasks = Len(tasks.list)
        /\ metrics.tMdoMinutes = m.tMdoMinutes
        /\ metrics.tMaqMinutes = m.tMaqMinutes
        /\ metrics.pauseMinutes = m.pauseMinutes
        /\ metrics.prepVerifyMinutes = m.prepVerifyMinutes
        /\ metrics.earliestStart = m.earliestStart
        /\ metrics.latestEnd = m.latestEnd
        /\ \A i \in DOMAIN perTask :
             perTask[i].counted <=> HasBothTimestamps(tasks.list[i])

\* C10 witness: a list of one complete and one incomplete task
C10_Witness ==
  /\ rendered
  /\ tasks.some /\ Len(tasks.list) = 2
  /\ Cardinality(ValidIdx(tasks)) = 1
  /\ \E i \in 1..2 : tasks.list[i].end_at.kind = "invalid"
  /\ metrics.totalTasks = 2
  /\ IsPositive(metrics.tMaqMinutes)

\* end_at is earlier than start_at
IsReversed(t) == HasBothTimestamps(t) /\ t.end_at.t < t.start_at.t

\* C11: a task whose end_at is earlier than its start_at has duration 0 and
\* contributes exactly 0 to the operator-minutes (its operator time and its
\* share of the aggregate pause subtraction), the machine-minutes, the
\* pause-minutes and the prep/verification minutes.
C11_ReversedTaskContributesZero ==
  rendered =>
    \A i \in ValidIdx(tasks) :
      IsReversed(tasks.list[i]) =>
        /\ perTask[i].counted
        /\ perTask[i].duration = 0
        /\ perTask[i].pauseOverlap = Zero
        /\ perTask[i].adjustedDuration = Zero
        /\ perTask[i].operatorTime = Zero
        /\ perTask[i].machineTime = Zero

\* C12: for an empty or not yet loaded task list totalTasks and the four
\* totals are 0, earliest start and latest end are absent and both per-piece
\* metrics are null, whatever the operation and the order.
C12_EmptyListGivesZeroMetrics ==
  (rendered /\ (~tasks.some \/ Len(tasks.list) = 0)) =>
    /\ metrics.totalTasks = 0
    /\ metrics.tMdoMinutes = Zero
    /\ metrics.tMaqMinutes = Zero
    /\ metrics.pauseMinutes = Zero
    /\ metrics.prepVerifyMinutes = Zero
    /\ metrics.earliestStart = NoDate
    /\ metrics.latestEnd = NoDate
    /\ metrics.perPieceMdo = NoNumber
    /\ metrics.perPieceMaq = NoNumber

\* C12 witness: an empty list fetched for a CONVENTIONAL operation of an
\* order of 10 pieces
C12_Witness ==
  /\ rendered
  /\ tasks = TaskList(<<>>)
  /\ getOperationMachineType(operation) = "CONVENTIONAL"
  /\ order = Order(Num(10))
  /\ metrics.totalTasks = 0
  /\ metrics.perPieceMdo = NoNumber

\* the positions of the tasks with both timestamps that are preparation or
\* quality control
PrepVerifyIdx(tk) ==
  { i \in ValidIdx(tk) :
      tk.list[i].process_type \in {"PREPARATION", "QUALITY_CONTROL"} }

\* C13: the prep/verification total is the sum of the raw durations (clamped
\* at 0, no pause subtracted, no division by a count) of exactly the tasks
\* with both timestamps whose process_type is PREPARATION or QUALITY_CONTROL;
\* the sum mentions neither the operation nor the counts.
C13_PrepVerifyIsRawSum ==
  rendered =>
    metrics.prepVerifyMinutes =
      SumOver([i \in PrepVerifyIdx(tasks) |-> FromInt(RawDuration(tasks.list[i]))],
              PrepVerifyIdx(tasks))

\* C13 witness: pauses are subtracted per task, a quality-control task of 210
\* minutes shared by two machines overlaps a pause, and another task is
\* neither preparation nor quality control
C13_Witness ==
  /\ rendered
  /\ subtractPausesForConventional(operation)
  /\ tasks.some /\ Len(tasks.list) = 2
  /\ \E i \in PrepVerifyIdx(tasks) :
       /\ tasks.list[i].process_type = "QUALITY_CONTROL"
       /\ tasks.list[i].num_machines = Num(2)
       /\ RawOverlap(tz, tasks.list[i]) > 0
  /\ \E i \in ValidIdx(tasks) \ PrepVerifyIdx(tasks) : RawDuration(tasks.list[i]) > 0
  /\ metrics.prepVerifyMinutes = <<210, 1>>

\* the least and the greatest element of a non-empty set of instants
MinOf(S) == CHOOSE x \in S : \A y \in S : x <= y
MaxOf(S) == CHOOSE x \in S : \A y \in S : x >= y

\* C14: earliestStart is the minimum start_at and latestEnd the maximum
\* end_at over the tasks with both timestamps (a set, so the order of the list
\* does not matter); both are absent when no task has both timestamps.
C14_EarliestAndLatest ==
  rendered =>
    IF ValidIdx(tasks) = {}
    THEN /\ metrics.earliestStart = NoDate
         /\ metrics.latestEnd = NoDate
    ELSE /\ metrics.earliestStart =
              Date(MinOf({ tasks.list[i].start_at.t : i \in ValidIdx(tasks) }))
         /\ metrics.latestEnd =
              Date(MaxOf({ tasks.list[i].end_at.t : i \in ValidIdx(tasks) }))

\* C14 witness: the second task of the list starts before the first and ends
\* before it
C14_Witness ==
  /\ rendered
  /\ tasks.some /\ Len(tasks.list) = 2
  /\ ValidIdx(tasks) = {1, 2}
  /\ tasks.list[2].start_at.t < tasks.list[1].start_at.t
  /\ tasks.list[2].end_at.t < tasks.list[1].end_at.t
  /\ metrics.earliestStart = Date(tasks.list[2].start_at.t)
  /\ metrics.latestEnd = Date(tasks.list[1].end_at.t)

\* every task of the list has num_benches = num_machines = 1
AllCountsOne(tk) ==
  \A i \in 1..Len(tk.list) :
    tk.list[i].num_benches = Num(1) /\ tk.list[i].num_machines = Num(1)

\* no task with both timestamps has a minute inside a pause window
NoTaskInPause(z, tk) ==
  \A i \in ValidIdx(tk) :
    PauseMinutesIn(z, tk.list[i].start_at.t, tk.list[i].end_at.t) = {}

\* operator-minutes and machine-minutes are both the sum of the raw durations
TotalsAreRawSum ==
  LET raw == SumOver([i \in ValidIdx(tasks) |-> FromInt(RawDuration(tasks.list[i]))],
                     ValidIdx(tasks))
  IN  metrics.tMdoMinutes = raw /\ metrics.tMaqMinutes = raw

\* the single task 2024-01-01T08:00:00Z - 2024-01-01T09:00:00Z, one bench, one
\* machine, on a CNC machine
IsExampleInput ==
  /\ MachineRecordType(operation) = "CNC"
  /\ tasks.some /\ Len(tasks.list) = 1
  /\ tasks.list[1].start_at = Iso(At(0, 8, 0))
  /\ tasks.list[1].end_at = Iso(At(0, 9, 0))
  /\ tasks.list[1].num_benches = Num(1)
  /\ tasks.list[1].num_machines = Num(1)

\* raw duration 60, pause overlap 0, operator-minutes = machine-minutes = 60
IsExampleOutput ==
  /\ perTask[1].duration = 60
  /\ perTask[1].pauseOverlap = Zero
  /\ metrics.pauseMinutes = Zero
  /\ metrics.tMdoMinutes = <<60, 1>>
  /\ metrics.tMaqMinutes = <<60, 1>>

\* C15 as stated: when no task overlaps a pause window and every task has one
\* bench and one machine, operator-minutes and machine-minutes are both the
\* sum of the raw durations, for every machine type; and the single task
\* 08:00Z - 09:00Z on a CNC machine yields raw duration 60, pause overlap 0
\* and operator-minutes = machine-minutes = 60.
C15_NoPauseNoSharing ==
  rendered =>
    /\ (AllCountsOne(tasks) /\ NoTaskInPause(tz, tasks)) => TotalsAreRawSum
    /\ IsExampleInput => IsExampleOutput

\* C15 amended: the same, the example being for a host whose local time is
\* UTC (the pause windows are at local time).
C15_NoPauseNoSharingLocal ==
  rendered =>
    /\ (AllCountsOne(tasks) /\ NoTaskInPause(tz, tasks)) => TotalsAreRawSum
    /\ ( /\ IsExampleInput
          /\ LocalTime(tz, At(0, 8, 0)) = At(0, 8, 0)
          /\ LocalTime(tz, At(0, 9, 0)) = At(0, 9, 0) )
         => IsExampleOutput

\* C15 witness: the example in a host whose local time is UTC
C15_Witness ==
  /\ rendered
  /\ LocalTime(tz, At(0, 8, 0)) = At(0, 8, 0)
  /\ IsExampleInput
  /\ AllCountsOne(tasks) /\ NoTaskInPause(tz, tasks)
  /\ IsExampleOutput

----------------------------------------------------------------------------
(* Properties of the tasks fetch effect (under SpecFetch) *)

\* OperationData renders the metrics card and the "Tarefas" card
ShowsOperation == rendered /\ operation.some

\* C16: whenever OperationData shows the metrics (or the task table) of the
\* selected operation, the task list they are computed from is the list
\* fetched for that operation, or none yet: never the list of a previously
\* selected operation, neither while the new fetch is in flight nor after it
\* has failed.
C16_TasksOfSelectedOperation ==
  ShowsOperation =>
    /\ memo = Memo(tz, operation, order, tasks)
    /\ tasks.some => tasks = TaskList(ServerTasks(operation.id))

\* run i of the effect ends in this step
Settles(i) ==
  /\ i \in DOMAIN fetches
  /\ fetches[i].outcome = "pending"
  /\ fetches'[i].outcome # "pending"

\* C17: the response or error of a fetch started for an operation that is no
\* longer the selected one changes none of tasks, error and loading; a fetch
\* that changes one of them is the one started for the selected operation by
\* the last run of the effect.
C17_StaleFetchIsIgnored ==
  [][ \A i \in 1..MaxFetches :
        Settles(i) =>
          /\ (~operation.some \/ fetches[i].op # operation.id \/ i # Len(fetches))
               => UNCHANGED <<tasks, error, loading>>
          /\ (<<tasks, error, loading>>' # <<tasks, error, loading>>)
               => /\ rendered
                  /\ operation.some
                  /\ fetches[i].op = operation.id
                  /\ i = Len(fetches) ]_vars

\* C17 witness: the fetch of a previously selected operation has ended while
\* the fetch of the selected operation is in flight, and the tasks are not
\* those of the previous operation
C17_Witness ==
  /\ ShowsOperation
  /\ Len(fetches) >= 2
  /\ fetches[Len(fetches)].outcome = "pending"
  /\ fetches[Len(fetches)].op = operation.id
  /\ loading
  /\ \E i \in 1..(Len(fetches) - 1) :
       /\ fetches[i].outcome = "ignored"
       /\ fetches[i].op # operation.id
       /\ tasks # TaskList(ServerTasks(fetches[i].op))

----------------------------------------------------------------------------
(* Properties of TaskDetail (under SpecDetail) *)

HasStart(t) == t.start_at.kind = "iso"
HasEnd(t) == t.end_at.kind = "iso"

\* 0 not started, 1 running, 2 completed
Phase(t) == IF ~HasStart(t) THEN 0 ELSE IF ~HasEnd(t) THEN 1 ELSE 2

\* this step is a click on the start/stop button that sends a PATCH
StartStopSends == request.kind = "none" /\ request'.kind = "startStop"

\* this step is the end of the PATCH of the start/stop button, on a mounted page
StartStopEnds ==
  request.kind = "startStop" /\ request'.kind = "none" /\ detail.mounted

OneTimerIffRunning ==
  /\ Cardinality(intervals) <= 1
  /\ intervals # {} <=>
       (detail.mounted /\ detail.task.some /\ Phase(detail.task) = 1)
  /\ intervals # {} => detail.timerRef \in intervals

\* C19: at most one one-second interval exists at any time, and one exists
\* exactly when the loaded task has start_at and no end_at; the interval is
\* cleared when start_at or end_at change and when the page unmounts.
C19_OneTimerWhileRunning ==
  [][ /\ OneTimerIffRunning
      /\ OneTimerIffRunning'
      /\ TimerDeps(detail'.task) # TimerDeps(detail.task)
           => intervals \cap intervals' = {}
      /\ ~detail'.mounted => intervals' = {} ]_vars

\* C19 witness: a running task whose interval was created after an earlier
\* one was cleared, and has ticked
C19_Witness ==
  /\ detail.mounted
  /\ Phase(detail.task) = 1
  /\ Cardinality(intervals) = 1
  /\ timersCreated >= 2
  /\ detail.timerSeconds > 0

\* this step is the end of the save that handleBackClick awaits
BackSaveEnds ==
  request.kind = "backSave" /\ request'.kind = "none" /\ detail.mounted

\* C20: when the user confirms saving before leaving, navigate(-1) is called
\* only if the save PATCH succeeded; if it failed the user stays on the page,
\* the edited values are kept and the error is shown.
C20_LeaveOnlyAfterSave ==
  [][ BackSaveEnds =>
        IF serverTask' = ApplyPatch(serverTask, request.payload)
           /\ detail'.task = serverTask'
        THEN navigated'
        ELSE /\ ~navigated'
             /\ detail'.error # NoError
             /\ SavePayload(detail') = SavePayload(detail) ]_vars

----------------------------------------------------------------------------
(* Properties of the pause-overlap calculator (under SpecPause) *)

\* C5: sumPauseOverlapBetween(start, end) is 0 when end <= start and
\* otherwise the number of minutes of [start, end) inside the windows
\* 10:00-10:10, 12:30-13:20 and 15:30-15:40 of the local days from the day of
\* start through the day of end; 0 outside all windows, 10 for 10:00-10:10.
C5_PauseOverlapIsIntersection ==
  pauseCall.done =>
    /\ pauseCall.end <= pauseCall.start => pauseCall.result = 0
    /\ pauseCall.end > pauseCall.start =>
         pauseCall.result =
           Cardinality(PauseMinutesIn(tz, pauseCall.start, pauseCall.end))
    /\ ( /\ LocalTime(tz, pauseCall.start) = At(0, 10, 0)
          /\ LocalTime(tz, pauseCall.end) = At(0, 10, 10) )
         => pauseCall.result = 10
    /\ ( /\ LocalTime(tz, pauseCall.start) = At(0, 8, 0)
          /\ LocalTime(tz, pauseCall.end) = At(0, 9, 0) )
         => pauseCall.result = 0

\* C5 witness: an interval over several days that starts and ends inside a
\* pause window
C5_Witness ==
  /\ pauseCall.done
  /\ LocalDay(tz, pauseCall.end) > LocalDay(tz, pauseCall.start)
  /\ InPauseWindow(LocalTime(tz, pauseCall.start) % MinutesPerDay)
  /\ InPauseWindow(LocalTime(tz, pauseCall.end - 1) % MinutesPerDay)
  /\ pauseCall.result > 70

\* C6 as stated: an interval of k times 24 hours has a pause overlap of 70 k
\* minutes (140 for 48 hours) whatever the time of day it starts at.
C6_SeventyPerTwentyFourHours ==
  pauseCall.done =>
    \A k \in 1..(MaxDay + 1) :
      pauseCall.end - pauseCall.start = k * MinutesPerDay
        => pauseCall.result = 70 * k

\* C6 amended: the same for an interval that contains no change of the local
\* clock (its length on the local clock is its elapsed length).
C6_SeventyPerLocalDay ==
  pauseCall.done =>
    \A k \in 1..(MaxDay + 1) :
      ( /\ pauseCall.end - pauseCall.start = k * MinutesPerDay
        /\ LocalTime(tz, pauseCall.end) - LocalTime(tz, pauseCall.start)
             = pauseCall.end - pauseCall.start )
        => pauseCall.result = 70 * k

\* C6 witness: 48 hours from 10:05, in the middle of the morning pause
C6_Witness ==
  /\ pauseCall.done
  /\ pauseCall.start = At(0, 10, 5)
  /\ pauseCall.end = At(2, 10, 5)
  /\ pauseCall.result = 140

----------------------------------------------------------------------------
(* Properties of AdminOrders (under SpecOrders) *)

ContainsId(list, x) == \E e \in Range(list) : e.id = x.id

\* what the page shows in a state: every selection has the selection above it
\* and is an entry of the list it was picked from
DrillDownConsistent(s) ==
  /\ s.selectedMonth.some => s.selectedYear.some
  /\ s.selectedOrder.some =>
       /\ s.selectedMonth.some
       /\ ContainsId(filteredOrdersForMonth(s), s.selectedOrder.v)
       /\ yearOf(s.selectedOrder.v.start_date) = s.selectedYear.v
       /\ monthOf(s.selectedOrder.v.start_date) = s.selectedMonth.v
  /\ s.selectedOperation.some =>
       /\ s.selectedOrder.some
       /\ ContainsId(filteredOperations(s), s.selectedOperation.v)

\* a step that changes a selection leaves no selection below it
ClearsBelow(s, t) ==
  /\ t.selectedYear # s.selectedYear =>
       ~t.selectedMonth.some /\ ~t.selectedOrder.some /\ ~t.selectedOperation.some
  /\ t.selectedMonth # s.selectedMonth =>
       ~t.selectedOrder.some /\ ~t.selectedOperation.some
  /\ t.selectedOrder # s.selectedOrder => ~t.selectedOperation.some

\* C21: once the effects of a click, a search or a fetch completion have
\* settled, a selected month has a selected year, a selected order has a
\* selected month and is in the filtered order list of that year and month, a
\* selected operation has a selected order and is in the filtered operations
\* list; a step that changes the year, the month or the order ends with no
\* selection below it.
C21_DrillDownConsistency ==
  [][ adminOrders'.mounted =>
        /\ DrillDownConsistent(adminOrders)
        /\ DrillDownConsistent(adminOrders')
        /\ ClearsBelow(adminOrders, adminOrders') ]_vars

\* C21 witness: the year was changed from 2024 to 2025 while order 10 (of
\* March 2024) was selected and its operations were being fetched: nothing is
\* selected below the year
C21_Witness ==
  /\ adminOrders.mounted
  /\ adminOrders.selectedYear = Some("2025")
  /\ ~adminOrders.selectedMonth.some
  /\ ~adminOrders.selectedOrder.some
  /\ \E i \in 1..Len(adminOrders.fetches) :
       adminOrders.fetches[i] = [order_number |-> 10, cancelled |-> TRUE]

\* an operations fetch of the selected order is in flight
OpsFetchInFlight(s) ==
  /\ s.selectedOrder.some
  /\ \E i \in 1..Len(s.fetches) :
       /\ ~s.fetches[i].cancelled
       /\ s.fetches[i].order_number = s.selectedOrder.v.order_number

\* C22: opsLoading (the "A carregar operações..." indicator) is true only
\* while an operations fetch for the selected order is in flight.
C22_OpsLoadingOnlyWhileFetching ==
  (adminOrders.mounted /\ adminOrders.opsLoading) => OpsFetchInFlight(adminOrders)

----------------------------------------------------------------------------
(* Properties of the order forms (under SpecForms) *)

\* the string is a numeral of a number greater than 0
IsPositiveNumeral(str) ==
  trim(str) # <<>> /\ ~IsNaN(NumberOf(str)) /\ IsPositive(NumberOf(str))

\* the content of the form of CreateNewOrder the claim calls valid
IsValidOrderForm(data) ==
  /\ IsPositiveNumeral(data.order_number)
  /\ IsPositiveNumeral(data.material_number)
  /\ IsPositiveNumeral(data.num_pieces)
  /\ data.start_date # <<>>
  /\ data.end_date # <<>>
  /\ ~StringGreater(data.start_date, data.end_date)

\* this step is a click on "Criar"
ClicksCreate == OnHome /\ orderForms'.lastClick # "none"

\* this step sends POST /orders
SendsCreate == OnHome /\ ~orderForms.request.some /\ orderForms'.request.some

\* C23: a click on "Criar" sends POST /orders only when order number,
\* material number and piece count are numerals greater than 0, both dates are
\* non-empty and start_date <= end_date; with any other content of the form it
\* sends no request, sets an error message and leaves the order list as it is.
C23_CreateOnlyWhenValid ==
  [][ /\ SendsCreate => IsValidOrderForm(orderForms.formData)
      /\ (ClicksCreate /\ ~IsValidOrderForm(orderForms.formData)) =>
           /\ ~SendsCreate
           /\ orderForms'.error # NoError
           /\ orderForms'.orders = orderForms.orders ]_vars

\* C24: every num_pieces a request of the order forms carries (the POST of
\* CreateNewOrder, the PATCH of EditOrderFieldModal) is a positive number.
C24_SubmittedPiecesPositive ==
  ( /\ orderForms.mounted
    /\ orderForms.request.some
    /\ "num_pieces" \in DOMAIN orderForms.request.v )
    => IsPositive(orderForms.request.v.num_pieces)

----------------------------------------------------------------------------
(* Properties of AdminMachines and AdminUsers (under SpecAdminList) *)

\* the value field f of the row would get from the inputs: what the input
\* holds, a bitzer_id as the number it denotes (null when the input is empty)
EditedValue(s, f) ==
  LET val == s.editValues[f]
  IN IF f # "bitzer_id" THEN val
     ELSE IF val.t = "undefined" \/ val.t = "null" \/ (val.t = "string" /\ val.v = <<>>)
       THEN [t |-> "null"]
     ELSE IF val.t = "string" THEN [t |-> "number", v |-> NumberOf(val.v)]
     ELSE val

RowInEditMode(s) == CHOOSE r \in Range(s.rows) : r.id = s.editingId.v

\* the fields whose edited value is not the value of the current row
DifferingFields(s) ==
  { f \in ListFields(s.kind) :
      \/ EditedValue(s, f) # RowInEditMode(s)[f]
      \/ (f = "bitzer_id" /\ EditedValue(s, f).t = "number"
            /\ IsNaN(EditedValue(s, f).v)) }

\* a click on the enabled button "Guardar" leads from s to t
ClicksGuardar(s, t) ==
  /\ t.last = "handleSave"
  /\ s.editingId # Null
  /\ s.savingId # s.editingId

\* C25: handleSave of AdminMachines and AdminUsers sends a PATCH whose body
\* holds exactly the fields whose edited value differs from the current row
\* (a number that is NaN being written as null); when no field differs it
\* sends nothing and leaves edit mode; when the PATCH fails the list, the
\* row in edit mode and its edited values stay as they are; and savingId is
\* null whenever handleSave has finished.
C25_SaveSendsChangedFields ==
  [][LET s == adminList
         t == adminList'
     IN /\ ClicksGuardar(s, t) =>
             IF DifferingFields(s) = {}
               THEN /\ t.saves = s.saves
                    /\ t.editingId = Null
                    /\ t.savingId = Null
               ELSE /\ Len(t.saves) = Len(s.saves) + 1
                    /\ SubSeq(t.saves, 1, Len(s.saves)) = s.saves
                    /\ LET patch == t.saves[Len(t.saves)]
                       IN /\ patch.id = s.editingId.v
                          /\ DOMAIN patch.body = DifferingFields(s)
                          /\ \A f \in DifferingFields(s) :
                               patch.body[f] =
                                 IF f = "bitzer_id" /\ EditedValue(s, f).t = "number"
                                      /\ IsNaN(EditedValue(s, f).v)
                                   THEN [t |-> "null"]
                                   ELSE EditedValue(s, f)
        /\ (Len(t.saves) < Len(s.saves) /\ t.last = "saveFailed") =>
             /\ t.rows = s.rows
             /\ t.editingId = s.editingId
             /\ t.editValues = s.editValues
        /\ Len(t.saves) < Len(s.saves) => t.savingId = Null
    ]_vars

\* a PATCH of the first user has failed: the row is still in edit mode with
\* the unticked "active" box, the list still shows the user as active
C25_Witness ==
  /\ adminList.mounted
  /\ adminList.kind = "users"
  /\ adminList.last = "saveFailed"
  /\ adminList.editingId = Some(1)
  /\ adminList.editValues.active = FALSE
  /\ adminList.rows[1].active = TRUE
  /\ adminList.savingId = Null
  /\ adminList.error # Null

\* C26: in AdminMachines and AdminUsers the response that replaces the
\* displayed list belongs to a request sent after the one whose response it
\* replaces: a slower response to an earlier request never replaces the
\* result of a later request.
C26_LaterResponseKept ==
  [][(adminList.mounted /\ adminList.shown # Null /\ adminList'.shown # Null)
       => adminList'.shown.v >= adminList.shown.v]_vars

====
